---- MODULE Spec2Model ----
(***************************************************************************)
(* Incremental Delaunay triangulation (triangle.js, point.js,              *)
(* triangulation.js) and the binary-heap priority queue (queue.js) that    *)
(* its point location uses.                                                *)
(*                                                                         *)
(* Numbers.  The program computes with IEEE doubles.  The model computes   *)
(* with exact rationals [n |-> numerator, d |-> denominator], d > 0, and   *)
(* with d = 0 for the non-finite results of a division by zero             *)
(* (n > 0: +Infinity, n < 0: -Infinity, n = 0: NaN).  All inserted points  *)
(* have small integer coordinates, so every numerator and denominator the  *)
(* program forms is an integer it represents exactly; only the quotients   *)
(* are rounded, by a relative error far below the 0.00001 slack of         *)
(* strictlyLessThan.                                                       *)
(*                                                                         *)
(* Objects.  A Point object is its index in `points`, a Triangle object    *)
(* its index in `cells`; Null (0) is JavaScript's null.  Triangles that    *)
(* are no longer referenced stay in `cells`, as garbage does on the heap.  *)
(***************************************************************************)
EXTENDS Integers, Sequences, FiniteSets, TLC

VARIABLES
  points,     \* the Point objects created so far: index -> [x, y, z]
  cells,      \* the Triangle objects created so far
  root,       \* Delaunay.root
  search,     \* Delaunay.search
  pc,         \* where the running call stands ("idle": no call runs)
  pending,    \* insert: points[i..] of the array, not yet handled
  pass,       \* the search identifier of the running pass
  queue,      \* findContainingTriangle: queue.elements[1..]
  fixes,      \* splitTriangle: the findAndFixViolatedTriangles calls still to make
  stack,      \* the activations of findAndFixViolatedTriangles / addRoot
  newRoot,    \* splitTriangle: the triangle it will return
  triangles,  \* collectTriangles: the array being filled
  hi,         \* collectTriangles: the loop index i
  result,     \* what the last completed getTriangles returned
  prevResult, \* what the getTriangles before that returned
  harvests,   \* number of getTriangles calls completed since the last insert
  dead,       \* the triangles splitTriangle has replaced
  popped,     \* the triangles the running locate pass has popped, in order
  turns,      \* findContainingTriangle: the turns its loop has taken, modulo 2
  logged,     \* the points insert reported as contained in no triangle
  calls       \* an object used on its own: the calls made on it, with what they returned

vars == <<points, cells, root, search, pc, pending, pass, queue, fixes, stack,
          newRoot, triangles, hi, result, prevResult, harvests, dead, popped,
          turns, logged, calls>>

Null == 0
Undefined == -1

\* F(e), with e evaluated once
With(e, F(_)) == CHOOSE y \in { F(v) : v \in {e} } : TRUE
With2(e1, e2, F(_, _)) == CHOOSE y \in { F(v, w) : v \in {e1}, w \in {e2} } : TRUE

\* ------------------------------------------------------------------ bounds
MaxPoints == 3
MaxBatch == 2
MaxHarvests == 2
MaxDepth == 12
MaxCalls == 6
MaxCoordinate == 4

\* ------------------------------------------------------------------ numbers
Abs(a) == IF a < 0 THEN -a ELSE a
Sign(a) == IF a < 0 THEN -1 ELSE IF a > 0 THEN 1 ELSE 0

\* n / d as the program's division leaves it
Div(n, d) ==
  IF d = 0 THEN [n |-> Sign(n), d |-> 0]
  ELSE IF d < 0 THEN [n |-> -n, d |-> -d]
  ELSE [n |-> n, d |-> d]

Num(k) == [n |-> k, d |-> 1]
IsNaN(a) == a.d = 0 /\ a.n = 0
IsFinite(a) == a.d # 0

Neg(x) == With(x, LAMBDA a : [n |-> -a.n, d |-> a.d])

Add(x, y) ==
  With2(x, y, LAMBDA a, b :
    IF a.d = 0 /\ b.d = 0 THEN
      (IF a.n = b.n THEN a ELSE [n |-> 0, d |-> 0])
    ELSE IF a.d = b.d THEN [n |-> a.n + b.n, d |-> a.d]
    ELSE Div(a.n * b.d + b.n * a.d, a.d * b.d))

Sub(a, b) == Add(a, Neg(b))

Mul(x, y) == With2(x, y, LAMBDA a, b : Div(a.n * b.n, a.d * b.d))

\* x < y
Less(x, y) ==
  With2(x, y, LAMBDA a, b :
    IF IsNaN(a) \/ IsNaN(b) THEN FALSE
    ELSE IF a.d = 0 /\ b.d = 0 THEN a.n < b.n
    ELSE IF a.d = 0 THEN a.n < 0
    ELSE IF b.d = 0 THEN b.n > 0
    ELSE IF a.d = b.d THEN a.n < b.n
    ELSE a.n * b.d < b.n * a.d)

\* x <= y
LessEq(x, y) ==
  With2(x, y, LAMBDA a, b :
    IF IsNaN(a) \/ IsNaN(b) THEN FALSE
    ELSE IF a.d = 0 /\ b.d = 0 THEN a.n <= b.n
    ELSE IF a.d = 0 THEN a.n < 0
    ELSE IF b.d = 0 THEN b.n > 0
    ELSE IF a.d = b.d THEN a.n <= b.n
    ELSE a.n * b.d <= b.n * a.d)

Slack == 100000

\* strictlyLessThan(x, y): x + 0.00001 * Math.abs(x) < y.  For finite x = a/d and
\* y = b/d this is |a| < 100000 * (b - a), i.e. |a| \div 100000 < b - a.
strictlyLessThan(x0, y0) ==
  With2(x0, y0, LAMBDA x, y :
    IF IsNaN(x) \/ IsNaN(y) \/ ~IsFinite(x) THEN FALSE
    ELSE IF ~IsFinite(y) THEN y.n > 0
    ELSE LET a == IF x.d = y.d THEN x.n ELSE x.n * y.d
             b == IF x.d = y.d THEN y.n ELSE y.n * x.d
         IN (Abs(a) \div Slack) < b - a)

\* ------------------------------------------------------------------- points
Point(x, y, z) == [x |-> x, y |-> y, z |-> z]

calculateDistanceSquarePlane(p1, p2) ==
  With2(Sub(p2.x, p1.x), Sub(p2.y, p1.y), LAMBDA x, y : Add(Mul(x, x), Mul(y, y)))

\* the Point object with index i, as the numbers the program reads from it
P(i) == Point(Num(points[i].x), Num(points[i].y), Num(points[i].z))

\* ---------------------------------------------------------------- triangles
\* a JavaScript array of three elements, indices 0..2
Arr3(a, b, c) == [i \in 0..2 |-> IF i = 0 THEN a ELSE IF i = 1 THEN b ELSE c]

\* Array.prototype.indexOf on such an array
indexOf(arr, v) ==
  IF arr[0] = v THEN 0 ELSE IF arr[1] = v THEN 1 ELSE IF arr[2] = v THEN 2 ELSE -1

\* arr[i] for an index that may be null (NoIndex): undefined then
NoIndex == -1
At(arr, i) == IF i \in 0..2 THEN arr[i] ELSE Undefined

\* new Triangle(points, neighbors): no search stamp, no cached values yet
Triangle(pts, nbs) ==
  [points |-> pts, neighbors |-> nbs, search |-> Undefined,
   center |-> <<>>, circumcenter |-> <<>>, radius |-> <<>>]

InitialNeighbors == Arr3(Null, Null, Null)

Quot(x, y) == With2(x, y, LAMBDA a, b : Div(a.n * b.d, a.d * b.n))

calculateCircumcentre(pts) ==
  LET x1 == points[pts[0]].x
      y1 == points[pts[0]].y
      z1 == points[pts[0]].z
      x2 == points[pts[1]].x
      y2 == points[pts[1]].y
      z2 == points[pts[1]].z
      x3 == points[pts[2]].x
      y3 == points[pts[2]].y
      z3 == points[pts[2]].z
      den == (2*x2-2*x1)*y3+(2*x1-2*x3)*y2+(2*x3-2*x2)*y1
      u == Div(-((y2-y1)*(y3*y3)+(-(y2*y2)+(y1*y1)-(x2*x2)+(x1*x1))*y3+y1*(y2*y2)
                 +(-(y1*y1)+(x3*x3)-(x1*x1))*y2+((x2*x2)-(x3*x3))*y1), den)
      v == Div((x2-x1)*(y3*y3)+(x1-x3)*(y2*y2)+(x3-x2)*(y1*y1)+(x2-x1)*(x3*x3)
               +((x1*x1)-(x2*x2))*x3+x1*(x2*x2)-(x1*x1)*x2, den)
      r == Neg(Quot(Add(Add(Num(-x1*y3), Mul(u, Num(y3))),
                        Mul(Num(x3), Sub(Num(y1), v))),
                    Num(x3*y2-x2*y3)))
      s == Quot(Add(Add(Num(-x1*y2), Mul(u, Num(y2))),
                    Mul(Num(x2), Sub(Num(y1), v))),
                Num(x3*y2-x2*y3))
      w == IF ~(z1 = z2 /\ z2 = z3)
           THEN Add(Add(Num(z1), Mul(r, Num(z2))), Mul(s, Num(z3)))
           ELSE Num(z1)
  IN Point(u, v, w)

calculateCenter(pts) ==
  LET x == points[pts[0]].x + points[pts[1]].x + points[pts[2]].x
      y == points[pts[0]].y + points[pts[1]].y + points[pts[2]].y
      z == points[pts[0]].z + points[pts[1]].z + points[pts[2]].z
  IN Point(Div(x, 3), Div(y, 3), Div(z, 3))

\* Triangle.prototype.getCenter: the cells after the call, and its value
fillCenter(cs, t) ==
  IF cs[t].center = <<>>
  THEN [cs EXCEPT ![t].center = <<calculateCenter(cs[t].points)>>]
  ELSE cs

getCenter(cs, t) == fillCenter(cs, t)[t].center[1]

\* Triangle.prototype.getCircumcenter: the cells after the call, and its value
fillCircumcenter(cs, t) ==
  IF cs[t].circumcenter = <<>>
  THEN [cs EXCEPT ![t].circumcenter = <<calculateCircumcentre(cs[t].points)>>]
  ELSE cs

getCircumcenter(cs, t) == fillCircumcenter(cs, t)[t].circumcenter[1]

\* Triangle.prototype.getRadius
fillRadius(cs, t) ==
  IF cs[t].radius = <<>>
  THEN With(fillCircumcenter(cs, t), LAMBDA c1 :
         [c1 EXCEPT ![t].radius =
            <<calculateDistanceSquarePlane(c1[t].circumcenter[1], P(c1[t].points[0]))>>])
  ELSE cs

getRadius(cs, t) == fillRadius(cs, t)[t].radius[1]

\* setPoint that leaves the cached radius in place
setPointKeepsRadius(cs, t, index, point) ==
  [cs EXCEPT ![t] = [@ EXCEPT
     !.points = IF index \in 0..2 THEN [@ EXCEPT ![index] = point] ELSE @,
     !.center = <<>>, !.circumcenter = <<>>]]

\* Triangle.prototype.setPoint
setPoint(cs, t, index, point) ==
  [cs EXCEPT ![t] = [@ EXCEPT
     !.points = IF index \in 0..2 THEN [@ EXCEPT ![index] = point] ELSE @,
     !.center = <<>>, !.circumcenter = <<>>, !.radius = <<>>]]

\* Triangle.prototype.distanceToCircumcenter
distanceToCircumcenter(cs, t, p) ==
  calculateDistanceSquarePlane(getCircumcenter(cs, t), P(p))

\* isPointInTriangle with the boundary left out
isPointInTriangleStrict(cs, t, p) ==
  LET x == points[p].x
      y == points[p].y
      x1 == points[cs[t].points[0]].x
      y1 == points[cs[t].points[0]].y
      x2 == points[cs[t].points[1]].x
      y2 == points[cs[t].points[1]].y
      x3 == points[cs[t].points[2]].x
      y3 == points[cs[t].points[2]].y
      u == Div(-(x*(y3-y1)+x1*(y-y3)+x3*(y1-y)), x1*(y3-y2)+x2*(y1-y3)+x3*(y2-y1))
      v == Div(x*(y2-y1)+x1*(y-y2)+x2*(y1-y), x1*(y3-y2)+x2*(y1-y3)+x3*(y2-y1))
  IN Less(Num(0), u) /\ Less(Num(0), v) /\ Less(Add(u, v), Num(1))

\* isPointInTriangle without the test u + v <= 1
isPointInTriangleWedge(cs, t, p) ==
  LET x == points[p].x
      y == points[p].y
      x1 == points[cs[t].points[0]].x
      y1 == points[cs[t].points[0]].y
      x2 == points[cs[t].points[1]].x
      y2 == points[cs[t].points[1]].y
      x3 == points[cs[t].points[2]].x
      y3 == points[cs[t].points[2]].y
      u == Div(-(x*(y3-y1)+x1*(y-y3)+x3*(y1-y)), x1*(y3-y2)+x2*(y1-y3)+x3*(y2-y1))
      v == Div(x*(y2-y1)+x1*(y-y2)+x2*(y1-y), x1*(y3-y2)+x2*(y1-y3)+x3*(y2-y1))
  IN LessEq(Num(0), u) /\ LessEq(Num(0), v)

\* isPointInTriangle(triangle, point), with point the Point object p
isPointInTriangle(cs, t, p) ==
  LET x == points[p].x
      y == points[p].y
      x1 == points[cs[t].points[0]].x
      y1 == points[cs[t].points[0]].y
      x2 == points[cs[t].points[1]].x
      y2 == points[cs[t].points[1]].y
      x3 == points[cs[t].points[2]].x
      y3 == points[cs[t].points[2]].y
      u == Div(-(x*(y3-y1)+x1*(y-y3)+x3*(y1-y)), x1*(y3-y2)+x2*(y1-y3)+x3*(y2-y1))
      v == Div(x*(y2-y1)+x1*(y-y2)+x2*(y1-y), x1*(y3-y2)+x2*(y1-y3)+x3*(y2-y1))
  IN LessEq(Num(0), u) /\ LessEq(Num(0), v) /\ LessEq(Add(u, v), Num(1))

containsPoint(cs, t, p) == isPointInTriangle(cs, t, p)

\* ------------------------------------------------------ priority queue (heap)
\* The sequence q is queue.elements without the unused element at index 0:
\* q[i] is this.elements[i], Len(q) is this.elements.length - 1.
minimalDistance(cs, p, t) ==
  LET minimal == calculateDistanceSquarePlane(P(p), P(cs[t].points[0]))
      \* the loop over points[1], points[2] assigns to `distance` only
  IN minimal

compareTriangles(cs, p, triangle1, triangle2) ==
  Sub(minimalDistance(cs, p, triangle1), minimalDistance(cs, p, triangle2))

parentIndex(index) == index \div 2
leftChildIndex(index) == index * 2
rightChildIndex(index) == index * 2 + 1

\* Queue.prototype.less, with the comparator of findContainingTriangle
less(cs, p, q, lhs, rhs) == Less(compareTriangles(cs, p, q[lhs], q[rhs]), Num(0))

swap(q, lhs, rhs) == [q EXCEPT ![lhs] = q[rhs], ![rhs] = q[lhs]]

RECURSIVE cascadeUp(_, _, _, _)
cascadeUp(cs, p, q, index) ==
  IF index > 1 /\ less(cs, p, q, index, parentIndex(index))
  THEN cascadeUp(cs, p, swap(q, index, parentIndex(index)), parentIndex(index))
  ELSE q

RECURSIVE cascadeDown(_, _, _, _)
cascadeDown(cs, p, q, index) ==
  LET size == Len(q)
      left_child == leftChildIndex(index)
      right_child == rightChildIndex(index)
      min_child == IF right_child <= size
                   THEN (IF less(cs, p, q, left_child, right_child)
                         THEN left_child ELSE right_child)
                   ELSE left_child
  IN IF left_child > size THEN q
     ELSE IF ~less(cs, p, q, index, min_child)
          THEN cascadeDown(cs, p, swap(q, min_child, index), min_child)
          ELSE q

\* insert that leaves the new element at the end of the array
queueInsertLast(cs, p, q, element) == Append(q, element)

\* Queue.prototype.insert
queueInsert(cs, p, q, element) == cascadeUp(cs, p, Append(q, element), Len(q) + 1)

\* Queue.prototype.pop: this.elements[1] = this.elements.pop() first removes the
\* last element and then stores it at index 1, which puts it back when it was
\* the only one.
queueAfterPop(cs, p, q) ==
  LET last == q[Len(q)]
      shrunk == SubSeq(q, 1, Len(q) - 1)
      stored == IF shrunk = <<>> THEN <<last>> ELSE [shrunk EXCEPT ![1] = last]
  IN cascadeDown(cs, p, stored, 1)

queuePop(q) == q[1]

\* Queue.prototype.isEmpty
isEmpty(q) == Len(q) + 1 <= 1

\* ------------------------------------------------------------------- the net
IsNull(t) == t = Null \/ t = Undefined

\* replaceNeighbor that leaves the reference to the old neighbor in place
replaceNeighborKept(cs, triangle, oldNeighbor, newNeighbor) == cs

replaceNeighbor(cs, triangle, oldNeighbor, newNeighbor) ==
  IF ~IsNull(triangle)
  THEN LET index == indexOf(cs[triangle].neighbors, oldNeighbor)
       IN IF index \in 0..2
          THEN [cs EXCEPT ![triangle].neighbors[index] = newNeighbor]
          ELSE cs   \* neighbors[-1] = newNeighbor: no element of the array changes
  ELSE cs

findNotContainedPoint(points1, points2) ==
  IF indexOf(points2, points1[0]) < 0 THEN 0
  ELSE IF indexOf(points2, points1[1]) < 0 THEN 1
  ELSE IF indexOf(points2, points1[2]) < 0 THEN 2
  ELSE NoIndex

findRemainingIndex(pts, point1, point2) ==
  IF pts[0] # point1 /\ pts[0] # point2 THEN 0
  ELSE IF pts[1] # point1 /\ pts[1] # point2 THEN 1
  ELSE IF pts[2] # point1 /\ pts[2] # point2 THEN 2
  ELSE NoIndex

\* (index + k) % 3 for an index that may be null (null counts as 0)
Mod3(index, k) == ((IF index = NoIndex THEN 0 ELSE index) + k) % 3

SetNeighbor(cs, t, index, n) ==
  IF index \in 0..2 THEN [cs EXCEPT ![t].neighbors[index] = n] ELSE cs

\* flip, the part that fixes the references to and from the neighbors; cs are
\* the cells after the two setPoint calls
\* the second half of flip without its replaceNeighbor: the outer neighbor of
\* triangle2 is handed over but not told
flipNeighbors2Silent(cs, triangle1, triangle2, index1, swapIndex2, oldNeighbors1) ==
  SetNeighbor(
    SetNeighbor(cs, triangle2, Mod3(swapIndex2, 2), triangle1),
    triangle2, swapIndex2, At(oldNeighbors1, index1))

flipNeighbors2(cs, triangle1, triangle2, index1, swapIndex2, oldNeighbors1) ==
  SetNeighbor(
    SetNeighbor(
      replaceNeighbor(cs, cs[triangle2].neighbors[Mod3(swapIndex2, 2)],
                      triangle2, triangle1),
      triangle2, Mod3(swapIndex2, 2), triangle1),
    triangle2, swapIndex2, At(oldNeighbors1, index1))

\* the first half of flip with its two slots exchanged
flipNeighbors1Swapped(cs, triangle1, triangle2, index2, swapIndex1, oldNeighbors2) ==
  SetNeighbor(
    SetNeighbor(
      replaceNeighbor(cs, cs[triangle1].neighbors[Mod3(swapIndex1, 2)],
                      triangle1, triangle2),
      triangle1, swapIndex1, triangle2),
    triangle1, Mod3(swapIndex1, 2), At(oldNeighbors2, index2))

flipNeighbors1(cs, triangle1, triangle2, index2, swapIndex1, oldNeighbors2) ==
  SetNeighbor(
    SetNeighbor(
      replaceNeighbor(cs, cs[triangle1].neighbors[Mod3(swapIndex1, 2)],
                      triangle1, triangle2),
      triangle1, Mod3(swapIndex1, 2), triangle2),
    triangle1, swapIndex1, At(oldNeighbors2, index2))

flipNeighbors(cs, triangle1, triangle2, index1, index2, swapIndex1, swapIndex2) ==
  With(flipNeighbors1(cs, triangle1, triangle2, index2, swapIndex1,
                      cs[triangle2].neighbors),
       LAMBDA c1 : flipNeighbors2(c1, triangle1, triangle2, index1, swapIndex2,
                                  cs[triangle1].neighbors))

\* flip, the second setPoint: it reads triangle1.points after the first one
flipPoint2(cs, triangle1, triangle2, index1, swapIndex2) ==
  setPoint(cs, triangle2, swapIndex2, At(cs[triangle1].points, index1))

flipAt(cs, triangle1, triangle2, index1, index2, swapIndex1, swapIndex2) ==
  With(setPoint(cs, triangle1, swapIndex1, At(cs[triangle2].points, index2)),
       LAMBDA c1 :
         With(flipPoint2(c1, triangle1, triangle2, index1, swapIndex2),
              LAMBDA c2 : flipNeighbors(c2, triangle1, triangle2, index1, index2,
                                        swapIndex1, swapIndex2)))

\* flip that overwrites the point of triangle1 that triangle2 does not have,
\* instead of the one after it
flipIndicesOver(cs, triangle1, triangle2, index1, index2) ==
  flipAt(cs, triangle1, triangle2, index1, index2, index1,
         findRemainingIndex(cs[triangle2].points, At(cs[triangle2].points, index2),
                            cs[triangle1].points[Mod3(index1, 1)]))

flipIndices(cs, triangle1, triangle2, index1, index2) ==
  flipAt(cs, triangle1, triangle2, index1, index2, Mod3(index1, 1),
         findRemainingIndex(cs[triangle2].points, At(cs[triangle2].points, index2),
                            cs[triangle1].points[Mod3(index1, 1)]))

flip(cs, triangle1, triangle2) ==
  flipIndices(cs, triangle1, triangle2,
              findNotContainedPoint(cs[triangle1].points, cs[triangle2].points),
              findNotContainedPoint(cs[triangle2].points, cs[triangle1].points))

\* investigateAndFixTriangle with the circumcenter and radius of `triangle`
\* cached, as its first loop turn leaves them
investigateFilled(cs, triangle, neighbor) ==
  IF \E i \in 0..2 :
       strictlyLessThan(distanceToCircumcenter(cs, triangle, cs[neighbor].points[i]),
                        getRadius(cs, triangle))
  THEN [cells |-> flip(cs, triangle, neighbor), fixed |-> TRUE]
  ELSE [cells |-> cs, fixed |-> FALSE]

\* investigateAndFixTriangle: the cells after the call, and what it returned
investigateAndFixTriangle(cs, triangle, neighbor) ==
  With(fillRadius(cs, triangle), LAMBDA c1 : investigateFilled(c1, triangle, neighbor))

\* splitTriangle whose three new triangles do not reference one another
splitCellsApart(cs, triangle, point) ==
  LET pts == cs[triangle].points
      neighbors == cs[triangle].neighbors
      c0 == cs \o << Triangle(Arr3(pts[0], pts[1], point),
                              Arr3(neighbors[0], Null, Null)),
                     Triangle(Arr3(point, pts[1], pts[2]),
                              Arr3(Null, neighbors[1], Null)),
                     Triangle(Arr3(pts[0], point, pts[2]),
                              Arr3(Null, Null, neighbors[2])) >>
  IN replaceNeighbor(
       replaceNeighbor(
         replaceNeighbor(c0, neighbors[0], triangle, Len(cs) + 1),
         neighbors[1], triangle, Len(cs) + 2),
       neighbors[2], triangle, Len(cs) + 3)

\* splitTriangle without its replaceNeighbor calls: the neighbors keep the
\* triangle that was split
splitCellsKeepsParent(cs, triangle, point) ==
  LET pts == cs[triangle].points
      neighbors == cs[triangle].neighbors
      triangle1 == Len(cs) + 1
      triangle2 == Len(cs) + 2
      triangle3 == Len(cs) + 3
  IN cs \o << Triangle(Arr3(pts[0], pts[1], point),
                       Arr3(neighbors[0], triangle2, triangle3)),
              Triangle(Arr3(point, pts[1], pts[2]),
                       Arr3(triangle1, neighbors[1], triangle3)),
              Triangle(Arr3(pts[0], point, pts[2]),
                       Arr3(triangle1, triangle2, neighbors[2])) >>

\* splitTriangle that does not tell the third neighbor about triangle3
splitCellsForgets(cs, triangle, point) ==
  LET pts == cs[triangle].points
      neighbors == cs[triangle].neighbors
      triangle1 == Len(cs) + 1
      triangle2 == Len(cs) + 2
      triangle3 == Len(cs) + 3
      c0 == cs \o << Triangle(Arr3(pts[0], pts[1], point),
                              Arr3(neighbors[0], triangle2, triangle3)),
                     Triangle(Arr3(point, pts[1], pts[2]),
                              Arr3(triangle1, neighbors[1], triangle3)),
                     Triangle(Arr3(pts[0], point, pts[2]),
                              Arr3(triangle1, triangle2, neighbors[2])) >>
      c1 == replaceNeighbor(c0, neighbors[0], triangle, triangle1)
      c2 == replaceNeighbor(c1, neighbors[1], triangle, triangle2)
  IN c2

\* splitTriangle up to the three findAndFixViolatedTriangles calls: the cells
\* with triangle1, triangle2, triangle3 appended
splitCells(cs, triangle, point) ==
  LET pts == cs[triangle].points
      neighbors == cs[triangle].neighbors
      triangle1 == Len(cs) + 1
      triangle2 == Len(cs) + 2
      triangle3 == Len(cs) + 3
      c0 == cs \o << Triangle(Arr3(pts[0], pts[1], point),
                              Arr3(neighbors[0], triangle2, triangle3)),
                     Triangle(Arr3(point, pts[1], pts[2]),
                              Arr3(triangle1, neighbors[1], triangle3)),
                     Triangle(Arr3(pts[0], point, pts[2]),
                              Arr3(triangle1, triangle2, neighbors[2])) >>
      c1 == replaceNeighbor(c0, neighbors[0], triangle, triangle1)
      c2 == replaceNeighbor(c1, neighbors[1], triangle, triangle2)
      c3 == replaceNeighbor(c2, neighbors[2], triangle, triangle3)
  IN c3

\* ------------------------------------------------------------------ the engine
\* this.point1, this.point2, this.point3
point1 == 1
point2 == 2
point3 == 3

\* new Delaunay(0, 0, 0, 4): center (0, 2), radius 2, side 6 * 2 * 1.5 / sqrt(3)
\* (10.39...), height 9; the three corners on the integer grid
BoundingPoints ==
  << [x |-> -5, y |-> 0, z |-> 0], [x |-> 0, y |-> 11, z |-> 0], [x |-> 5, y |-> 0, z |-> 0] >>

\* the coordinates the caller may hand to insert: inside the initial triangle,
\* and one outside of it
Inside ==
  { [x |-> 0, y |-> 3, z |-> 0], [x |-> 0, y |-> 6, z |-> 0], [x |-> -2, y |-> 2, z |-> 0],
    [x |-> 2, y |-> 2, z |-> 0], [x |-> 1, y |-> 4, z |-> 0], [x |-> -1, y |-> 1, z |-> 0] }
Outside == { [x |-> 6, y |-> 1, z |-> 0] }
Candidates == Inside \cup Outside

Init ==
  /\ points = BoundingPoints
  /\ cells = << Triangle(Arr3(point1, point2, point3), InitialNeighbors) >>
  /\ root = 1
  /\ search = 0
  /\ pc = "idle"
  /\ pending = <<>>
  /\ pass = 0
  /\ queue = <<>>
  /\ fixes = <<>>
  /\ stack = <<>>
  /\ newRoot = Null
  /\ triangles = <<>>
  /\ hi = 0
  /\ result = <<>>
  /\ prevResult = <<>>
  /\ harvests = 0
  /\ dead = {}
  /\ popped = <<>>
  /\ turns = 0
  /\ logged = <<>>
  /\ calls = <<>>

SamePlace(a, b) == a.x = b.x /\ a.y = b.y

\* the arrays of at most MaxBatch new points, at places where no point is yet,
\* that keep the number of inserted points within max
Batches(C, max) ==
  { b \in UNION { [1..n -> C] : n \in 1..MaxBatch } :
      /\ Len(points) - 3 + Len(b) <= max
      /\ \A i \in 1..Len(b) : \A j \in 1..Len(points) : ~SamePlace(b[i], points[j])
      /\ \A i, j \in 1..Len(b) : i # j => ~SamePlace(b[i], b[j]) }

\* insert that starts its passes again from identifier 0 at every call
InsertCallRestarts(batch) ==
  /\ pc = "idle"
  /\ points' = points \o batch
  /\ pending' = [i \in 1..Len(batch) |-> Len(points) + i]
  /\ pc' = "next"
  /\ result' = <<>>
  /\ prevResult' = <<>>
  /\ harvests' = 0
  /\ search' = 0
  /\ UNCHANGED <<calls, cells, root, pass, queue, fixes, stack, newRoot, triangles,
                 hi, dead, popped, turns, logged>>

\* Delaunay.prototype.insert is called with an array of new Point objects
InsertCall(batch) ==
  /\ pc = "idle"
  /\ points' = points \o batch
  /\ pending' = [i \in 1..Len(batch) |-> Len(points) + i]
  /\ pc' = "next"
  /\ result' = <<>>
  /\ prevResult' = <<>>
  /\ harvests' = 0
  /\ UNCHANGED <<calls, cells, root, search, pass, queue, fixes, stack, newRoot, triangles,
                 hi, dead, popped, turns, logged>>

\* insert that hands this.search to findContainingTriangle without the ++
NextPointSameId ==
  /\ pc = "next"
  /\ IF pending = <<>>
     THEN /\ pc' = "idle"
          /\ popped' = <<>>
          /\ UNCHANGED <<search, pass, queue, pending, logged, turns>>
     ELSE /\ search' = search
          /\ pass' = search
          /\ popped' = <<>>
          /\ turns' = 0
          /\ IF ~(root # Null /\ cells[root].search # search)
             THEN /\ logged' = Append(logged, Head(pending))
                  /\ pending' = Tail(pending)
                  /\ pc' = "next"
                  /\ queue' = <<>>
             ELSE /\ queue' = queueInsert(cells, Head(pending), <<>>, root)
                  /\ pc' = "locate"
                  /\ UNCHANGED <<pending, logged>>
  /\ UNCHANGED <<calls, points, cells, root, fixes, stack, newRoot, triangles, hi, result,
                 prevResult, harvests, dead>>

\* insert, loop head: the next point, and findContainingTriangle up to its loop
NextPoint ==
  /\ pc = "next"
  /\ IF pending = <<>>
     THEN /\ pc' = "idle"
          /\ popped' = <<>>
          /\ UNCHANGED <<search, pass, queue, pending, logged, turns>>
     ELSE /\ search' = search + 1
          /\ pass' = search
          /\ popped' = <<>>
          /\ turns' = 0
          /\ IF ~(root # Null /\ cells[root].search # search)
             THEN /\ logged' = Append(logged, Head(pending))
                  /\ pending' = Tail(pending)
                  /\ pc' = "next"
                  /\ queue' = <<>>
             ELSE /\ queue' = queueInsert(cells, Head(pending), <<>>, root)
                  /\ pc' = "locate"
                  /\ UNCHANGED <<pending, logged>>
  /\ UNCHANGED <<calls, points, cells, root, fixes, stack, newRoot, triangles, hi, result,
                 prevResult, harvests, dead>>

\* the pops of the running pass; a third and later pop of the same triangle is
\* not recorded again
Count(seq, e) == Cardinality({ i \in 1..Len(seq) : seq[i] = e })
Noted(seq, e) == IF Count(seq, e) < 2 THEN Append(seq, e) ELSE seq

\* the for loop of findContainingTriangle, looking at triangle.neighbors[0] only
expandFirst(cs, q, p, triangle, i) ==
  IF ~IsNull(cs[triangle].neighbors[0]) /\ cs[cs[triangle].neighbors[0]].search # pass
  THEN With([cs EXCEPT ![cs[triangle].neighbors[0]].search = pass], LAMBDA c1 :
         [cells |-> c1, queue |-> queueInsert(c1, p, q, cs[triangle].neighbors[0])])
  ELSE [cells |-> cs, queue |-> q]

\* the body of the for loop of findContainingTriangle over triangle.neighbors
RECURSIVE expand(_, _, _, _, _)
expand(cs, q, p, triangle, i) ==
  IF i >= 3 THEN [cells |-> cs, queue |-> q]
  ELSE LET neighbor == cs[triangle].neighbors[i]
       IN IF ~IsNull(neighbor) /\ cs[neighbor].search # pass
          THEN With([cs EXCEPT ![neighbor].search = pass], LAMBDA c1 :
                 With(queueInsert(c1, p, q, neighbor), LAMBDA q1 :
                   expand(c1, q1, p, triangle, i + 1)))
          ELSE expand(cs, q, p, triangle, i + 1)

\* insert that takes the triangle it split for its new root
LocateStepOldRoot ==
  /\ pc = "locate"
  /\ LET point == Head(pending) IN
     IF isEmpty(queue)
     THEN /\ logged' = Append(logged, point)
          /\ pending' = Tail(pending)
          /\ pc' = "next"
          /\ popped' = <<>>
          /\ turns' = 0
          /\ UNCHANGED <<cells, queue, fixes, newRoot, dead>>
     ELSE LET triangle == queuePop(queue)
          IN IF containsPoint(cells, triangle, point)
             THEN /\ cells' = splitCells(cells, triangle, point)
                  /\ fixes' = << Len(cells) + 1, Len(cells) + 2, Len(cells) + 3 >>
                  /\ newRoot' = triangle
                  /\ dead' = dead \cup {triangle}
                  /\ queue' = <<>>
                  /\ pc' = "fix"
                  /\ turns' = 0
                  /\ UNCHANGED <<pending, logged, popped>>
             ELSE \E q1 \in { queueAfterPop(cells, point, queue) } :
                  \E e \in { expand(cells, q1, point, triangle, 0) } :
                     /\ cells' = e.cells
                     /\ queue' = e.queue
                     /\ popped' = Noted(popped, triangle)
                     /\ turns' = (turns + 1) % 2
                     /\ UNCHANGED <<pc, pending, logged, fixes, newRoot, dead>>
  /\ UNCHANGED <<calls, points, root, search, pass, stack, triangles, hi, result, prevResult,
                 harvests>>

\* findContainingTriangle, one turn of its while loop; on success splitTriangle
\* up to its first findAndFixViolatedTriangles call
LocateStep ==
  /\ pc = "locate"
  /\ LET point == Head(pending) IN
     IF isEmpty(queue)
     THEN /\ logged' = Append(logged, point)
          /\ pending' = Tail(pending)
          /\ pc' = "next"
          /\ popped' = <<>>
          /\ turns' = 0
          /\ UNCHANGED <<cells, queue, fixes, newRoot, dead>>
     ELSE LET triangle == queuePop(queue)
          IN IF containsPoint(cells, triangle, point)
             THEN /\ cells' = splitCells(cells, triangle, point)
                  /\ fixes' = << Len(cells) + 1, Len(cells) + 2, Len(cells) + 3 >>
                  /\ newRoot' = Len(cells) + 1
                  /\ dead' = dead \cup {triangle}
                  /\ queue' = <<>>
                  /\ pc' = "fix"
                  /\ turns' = 0
                  /\ UNCHANGED <<pending, logged, popped>>
             ELSE \E q1 \in { queueAfterPop(cells, point, queue) } :
                  \E e \in { expand(cells, q1, point, triangle, 0) } :
                     /\ cells' = e.cells
                     /\ queue' = e.queue
                     /\ popped' = Noted(popped, triangle)
                     /\ turns' = (turns + 1) % 2
                     /\ UNCHANGED <<pc, pending, logged, fixes, newRoot, dead>>
  /\ UNCHANGED <<calls, points, root, search, pass, stack, triangles, hi, result, prevResult,
                 harvests>>

\* findAndFixViolatedTriangles(triangle) from loop index i up to its next
\* recursive call (flipped, with the neighbor it recurses on) or to its return
RECURSIVE scan(_, _, _)
scan(cs, triangle, i) ==
  IF i >= 3 THEN [cells |-> cs, flipped |-> FALSE, neighbor |-> Null]
  ELSE LET neighbor == cs[triangle].neighbors[i]
       IN IF IsNull(neighbor) THEN scan(cs, triangle, i + 1)
          ELSE With(investigateAndFixTriangle(cs, triangle, neighbor), LAMBDA r :
                 IF r.fixed
                 THEN [cells |-> r.cells, flipped |-> TRUE, neighbor |-> neighbor]
                 ELSE scan(r.cells, triangle, i + 1))

Frame(t, i) == [triangle |-> t, i |-> i]

\* splitTriangle from its first findAndFixViolatedTriangles call on: one step
\* runs the innermost activation up to its next call or return
FixStep ==
  /\ pc = "fix"
  /\ IF stack = <<>>
     THEN IF fixes = <<>>
          THEN \* return triangle1; this.root = ...; i++
               /\ root' = newRoot
               /\ newRoot' = Null
               /\ pending' = Tail(pending)
               /\ pc' = "next"
               /\ UNCHANGED <<cells, fixes, stack>>
          ELSE /\ stack' = << Frame(Head(fixes), 0) >>
               /\ fixes' = Tail(fixes)
               /\ UNCHANGED <<cells, root, newRoot, pending, pc>>
     ELSE LET top == stack[Len(stack)] IN
          \E r \in { scan(cells, top.triangle, top.i) } :
             /\ cells' = r.cells
             /\ IF r.flipped
                THEN /\ Len(stack) < MaxDepth
                     /\ stack' = [stack EXCEPT ![Len(stack)].i = 0]
                                   \o << Frame(r.neighbor, 0) >>
                ELSE stack' = SubSeq(stack, 1, Len(stack) - 1)
             /\ UNCHANGED <<fixes, root, newRoot, pending, pc>>
  /\ UNCHANGED <<calls, points, search, pass, queue, triangles, hi, result, prevResult,
                 harvests, dead, popped, turns, logged>>

\* addTriangle without the test for the bounding points
addTriangleAny(cs, trs, triangle) ==
  IF ~IsNull(triangle) /\ cs[triangle].search # pass'
  THEN [cells |-> [cs EXCEPT ![triangle].search = pass'],
        triangles |-> Append(trs, triangle), added |-> TRUE]
  ELSE [cells |-> cs, triangles |-> trs, added |-> FALSE]

\* Delaunay.prototype.addTriangle: the cells and the array after the call, and
\* what it returned
addTriangle(cs, trs, triangle) ==
  IF ~IsNull(triangle) /\ cs[triangle].search # pass'
  THEN LET c1 == [cs EXCEPT ![triangle].search = pass']
       IN IF indexOf(cs[triangle].points, point1) < 0 /\
             indexOf(cs[triangle].points, point2) < 0 /\
             indexOf(cs[triangle].points, point3) < 0
          THEN [cells |-> c1, triangles |-> Append(trs, triangle), added |-> TRUE]
          ELSE [cells |-> c1, triangles |-> trs, added |-> FALSE]
  ELSE [cells |-> cs, triangles |-> trs, added |-> FALSE]

\* getTriangles that runs its pass under the identifier of the pass before it
GetTrianglesStale ==
  /\ pc = "idle"
  /\ search - (Len(points) - 3) < MaxHarvests
  /\ search' = search + 1
  /\ pass' = pass
  /\ LET a == addTriangle(cells, <<>>, root)
     IN /\ cells' = a.cells
        /\ triangles' = a.triangles
        /\ IF a.added \/ root = Null
           THEN pc' = "expand" /\ stack' = <<>>
           ELSE pc' = "addRoot" /\ stack' = << Frame(root, 0) >>
  /\ hi' = 0
  /\ UNCHANGED <<calls, points, root, pending, queue, fixes, newRoot, result, prevResult,
                 harvests, dead, popped, turns, logged>>

\* Delaunay.prototype.getTriangles, up to the loop of the outermost addRoot
GetTrianglesCall ==
  /\ pc = "idle"
  /\ search - (Len(points) - 3) < MaxHarvests
  /\ search' = search + 1
  /\ pass' = search
  /\ LET a == addTriangle(cells, <<>>, root)
     IN /\ cells' = a.cells
        /\ triangles' = a.triangles
        /\ IF a.added \/ root = Null
           THEN pc' = "expand" /\ stack' = <<>>
           ELSE pc' = "addRoot" /\ stack' = << Frame(root, 0) >>
  /\ hi' = 0
  /\ UNCHANGED <<calls, points, root, pending, queue, fixes, newRoot, result, prevResult,
                 harvests, dead, popped, turns, logged>>

\* Delaunay.prototype.addRoot: one turn of the loop of the innermost activation
AddRootStep ==
  /\ pc = "addRoot"
  /\ pass' = pass
  /\ IF stack = <<>>
     THEN \* the outermost addRoot returned false
          pc' = "expand" /\ UNCHANGED <<cells, triangles, stack>>
     ELSE LET top == stack[Len(stack)]
              neighbor == cells[top.triangle].neighbors[top.i]
              down == SubSeq(stack, 1, Len(stack) - 1)
          IN IF top.i >= 3
             THEN \* return false; the caller goes on with its i++
                  /\ stack' = IF down = <<>> THEN down
                              ELSE [down EXCEPT ![Len(down)].i = @ + 1]
                  /\ UNCHANGED <<cells, triangles, pc>>
             ELSE IF ~IsNull(neighbor) /\ cells[neighbor].search # pass
                  THEN LET a == addTriangle(cells, triangles, neighbor)
                       IN /\ cells' = a.cells
                          /\ triangles' = a.triangles
                          /\ IF a.added
                             THEN pc' = "expand" /\ stack' = <<>>
                             ELSE /\ Len(stack) < MaxDepth
                                  /\ stack' = Append(stack, Frame(neighbor, 0))
                                  /\ pc' = pc
                  ELSE /\ stack' = [stack EXCEPT ![Len(stack)].i = @ + 1]
                       /\ UNCHANGED <<cells, triangles, pc>>
  /\ UNCHANGED <<calls, points, root, search, pending, queue, fixes, newRoot, hi, result,
                 prevResult, harvests, dead, popped, turns, logged>>

\* Delaunay.prototype.addNeighbors
RECURSIVE addNeighbors(_, _, _, _)
addNeighbors(cs, trs, triangle, i) ==
  IF i >= 3 THEN [cells |-> cs, triangles |-> trs]
  ELSE LET a == addTriangle(cs, trs, cs[triangle].neighbors[i])
       IN addNeighbors(a.cells, a.triangles, triangle, i + 1)

\* collectTriangles that keeps the first triangle it found as the new root
ExpandStepMovesRoot ==
  /\ pc = "expand"
  /\ pass' = pass
  /\ IF hi < Len(triangles)
     THEN LET a == addNeighbors(cells, triangles, triangles[hi + 1], 0)
          IN /\ cells' = a.cells
             /\ triangles' = a.triangles
             /\ hi' = hi + 1
             /\ UNCHANGED <<pc, result, prevResult, harvests, root>>
     ELSE /\ result' = triangles
          /\ prevResult' = result
          /\ harvests' = IF harvests < 2 THEN harvests + 1 ELSE harvests
          /\ triangles' = <<>>
          /\ hi' = 0
          /\ pc' = "idle"
          /\ root' = IF triangles = <<>> THEN root ELSE triangles[1]
          /\ UNCHANGED cells
  /\ UNCHANGED <<calls, points, search, pending, queue, fixes, stack, newRoot, dead,
                 popped, turns, logged>>

\* collectTriangles: one turn of its for loop, or its return
ExpandStep ==
  /\ pc = "expand"
  /\ pass' = pass
  /\ IF hi < Len(triangles)
     THEN LET a == addNeighbors(cells, triangles, triangles[hi + 1], 0)
          IN /\ cells' = a.cells
             /\ triangles' = a.triangles
             /\ hi' = hi + 1
             /\ UNCHANGED <<pc, result, prevResult, harvests>>
     ELSE /\ result' = triangles
          /\ prevResult' = result
          /\ harvests' = IF harvests < 2 THEN harvests + 1 ELSE harvests
          /\ triangles' = <<>>
          /\ hi' = 0
          /\ pc' = "idle"
          /\ UNCHANGED cells
  /\ UNCHANGED <<calls, points, root, search, pending, queue, fixes, stack, newRoot, dead,
                 popped, turns, logged>>

Next ==
  \/ \E batch \in Batches(Candidates, MaxPoints) : InsertCall(batch)
  \/ NextPoint
  \/ LocateStep
  \/ FixStep
  \/ GetTrianglesCall
  \/ AddRootStep
  \/ ExpandStep

Spec == Init /\ [][Next]_vars

\* A call that runs keeps running: the program is single-threaded and no
\* operation suspends.  Whether the caller makes another call is up to it.
Step == NextPoint \/ LocateStep \/ FixStep \/ AddRootStep \/ ExpandStep

FairSpec == Spec /\ WF_vars(Step)

\* Five points in general position, inserted in this order by insert calls of
\* at most MaxBatch points each
HarvestPoints ==
  << [x |-> 1, y |-> 4, z |-> 0], [x |-> 2, y |-> 4, z |-> 0], [x |-> -3, y |-> 2, z |-> 0],
     [x |-> -3, y |-> 3, z |-> 0], [x |-> 2, y |-> 5, z |-> 0] >>

HarvestBatches ==
  { SubSeq(HarvestPoints, Len(points) - 2, Len(points) - 3 + n) :
      n \in 1..(IF Len(HarvestPoints) - (Len(points) - 3) < MaxBatch
                THEN Len(HarvestPoints) - (Len(points) - 3) ELSE MaxBatch) }

NextHarvest ==
  \/ \E batch \in HarvestBatches : InsertCall(batch)
  \/ NextPoint
  \/ LocateStep
  \/ FixStep
  \/ GetTrianglesCall
  \/ AddRootStep
  \/ ExpandStep

SpecHarvest == Init /\ [][NextHarvest]_vars

\* --------------------------------------------------------- the worked example
\* new Delaunay(0, 10, 0, 10) and the points (5,5), (1,1), (9,1), (5,9), in the
\* coordinates x -> (x - 5) / 2, y -> (y - 5) / 2, which keep every test of
\* the program (barycentric coordinates, circumcircles) as it is.  The corners
\* of the bounding triangle, (-9.18.., -3.53..), (0, 15.90..), (9.18.., -3.53..)
\* in these coordinates, are taken on the integer grid; point2, (5,5) and (5,9)
\* lie on one vertical line as they do in the program, where center_x is
\* exactly 5.
ExampleBounding ==
  << [x |-> -9, y |-> -4, z |-> 0], [x |-> 0, y |-> 16, z |-> 0], [x |-> 9, y |-> -4, z |-> 0] >>

ExamplePoints ==
  << [x |-> 0, y |-> 0, z |-> 0], [x |-> -2, y |-> -2, z |-> 0],
     [x |-> 2, y |-> -2, z |-> 0], [x |-> 0, y |-> 2, z |-> 0] >>

InitExample ==
  /\ points = ExampleBounding
  /\ cells = << Triangle(Arr3(point1, point2, point3), InitialNeighbors) >>
  /\ root = 1
  /\ search = 0
  /\ pc = "idle"
  /\ pending = <<>>
  /\ pass = 0
  /\ queue = <<>>
  /\ fixes = <<>>
  /\ stack = <<>>
  /\ newRoot = Null
  /\ triangles = <<>>
  /\ hi = 0
  /\ result = <<>>
  /\ prevResult = <<>>
  /\ harvests = 0
  /\ dead = {}
  /\ popped = <<>>
  /\ turns = 0
  /\ logged = <<>>
  /\ calls = <<>>

\* the example's points in their order, handed over in one insert call or in
\* several
ExampleBatches ==
  { SubSeq(ExamplePoints, Len(points) - 2, Len(points) - 3 + n) :
      n \in 1..(Len(ExamplePoints) - (Len(points) - 3)) }

NextExample ==
  \/ \E batch \in ExampleBatches : InsertCall(batch)
  \/ NextPoint
  \/ LocateStep
  \/ FixStep
  \/ GetTrianglesCall
  \/ AddRootStep
  \/ ExpandStep

SpecExample == InitExample /\ [][NextExample]_vars

\* ------------------------------------------------- the constructor, on its own
\* The corners of the bounding triangle are multiples of sqrt(3) and of the
\* diagonal of the rectangle.  For rectangles whose diagonal is an integer the
\* model computes them exactly, as numbers (a + b * sqrt(3)) / d with integers
\* a, b and d > 0.  The program's doubles differ from these by rounding errors
\* of relative size 2^-52 in the x coordinates of point1 and point3; the y
\* coordinates are the same numbers in both.
RECURSIVE Gcd(_, _)
Gcd(m, n) == IF n = 0 THEN m ELSE Gcd(n, m % n)

Surd(a, b, d) ==
  With(Gcd(Gcd(Abs(a), Abs(b)), d),
       LAMBDA g : [a |-> a \div g, b |-> b \div g, d |-> d \div g])

SurdAdd(x, y) == Surd(x.a * y.d + y.a * x.d, x.b * y.d + y.b * x.d, x.d * y.d)
SurdSub(x, y) == Surd(x.a * y.d - y.a * x.d, x.b * y.d - y.b * x.d, x.d * y.d)
SurdMul(x, y) == Surd(x.a * y.a + 3 * x.b * y.b, x.a * y.b + x.b * y.a, x.d * y.d)

\* the sign of (a + b * sqrt(3)) / d
SurdSign(x) ==
  IF x.a >= 0 /\ x.b >= 0 THEN (IF x.a = 0 /\ x.b = 0 THEN 0 ELSE 1)
  ELSE IF x.a <= 0 /\ x.b <= 0 THEN -1
  ELSE IF x.a > 0 THEN (IF x.a * x.a > 3 * x.b * x.b THEN 1 ELSE -1)
  ELSE (IF 3 * x.b * x.b > x.a * x.a THEN 1 ELSE -1)

\* Math.sqrt of a square number
IntSqrt(n) == CHOOSE k \in 0..n : k * k = n

\* Delaunay(min_x, max_x, min_y, max_y): this.point1, this.point2, this.point3
Delaunay(min_x, max_x, min_y, max_y) ==
  LET slack == Surd(3, 0, 2)
      center_x == Surd(min_x + max_x, 0, 2)
      center_y == Surd(min_y + max_y, 0, 2)
      rectangle_a == max_x - min_x
      rectangle_b == max_y - min_y
      radius == Surd(IntSqrt(rectangle_a * rectangle_a + rectangle_b * rectangle_b), 0, 2)
      side == SurdMul(SurdMul(SurdMul(Surd(6, 0, 1), radius), slack), Surd(0, 1, 3))
      height == SurdMul(SurdMul(side, Surd(0, 1, 1)), Surd(1, 0, 2))
      half == SurdMul(side, Surd(1, 0, 2))
  IN << [x |-> SurdSub(center_x, half), y |-> SurdSub(center_y, radius), z |-> Surd(0, 0, 1)],
        [x |-> center_x, y |-> SurdAdd(center_y, height), z |-> Surd(0, 0, 1)],
        [x |-> SurdAdd(center_x, half), y |-> SurdSub(center_y, radius), z |-> Surd(0, 0, 1)] >>

\* the rectangles with corners on the grid 0..MaxCoordinate and an integer
\* diagonal; among them those of width 0, of height 0, and single points
Rectangles ==
  { r \in [min_x : 0..MaxCoordinate, max_x : 0..MaxCoordinate,
           min_y : 0..MaxCoordinate, max_y : 0..MaxCoordinate] :
      /\ r.min_x <= r.max_x
      /\ r.min_y <= r.max_y
      /\ \E k \in 0..(2 * MaxCoordinate) :
           k * k = (r.max_x - r.min_x) * (r.max_x - r.min_x)
                   + (r.max_y - r.min_y) * (r.max_y - r.min_y) }

InitBox ==
  /\ points = <<>>
  /\ cells = <<>>
  /\ root = Null
  /\ search = 0
  /\ pc = "new"
  /\ pending = <<>>
  /\ pass = 0
  /\ queue = <<>>
  /\ fixes = <<>>
  /\ stack = <<>>
  /\ newRoot = Null
  /\ triangles = <<>>
  /\ hi = 0
  /\ result = <<>>
  /\ prevResult = <<>>
  /\ harvests = 0
  /\ dead = {}
  /\ popped = <<>>
  /\ turns = 0
  /\ logged = <<>>
  /\ calls = <<>>

\* new Delaunay(r.min_x, r.max_x, r.min_y, r.max_y)
DelaunayCall(r) ==
  /\ pc = "new"
  /\ points' = Delaunay(r.min_x, r.max_x, r.min_y, r.max_y)
  /\ cells' = << Triangle(Arr3(point1, point2, point3), InitialNeighbors) >>
  /\ root' = 1
  /\ search' = 0
  /\ pc' = "constructed"
  /\ calls' = << <<"Delaunay", r>> >>
  /\ UNCHANGED <<pending, pass, queue, fixes, stack, newRoot, triangles, hi, result,
                 prevResult, harvests, dead, popped, turns, logged>>

NextBox == \E r \in Rectangles : DelaunayCall(r)

SpecBox == InitBox /\ [][NextBox]_vars

\* ----------------------------------------------------- points at one place
\* insert calls that do not keep to the assumption that no two points lie
\* above each other: the caller hands over points of DupCandidates whether or
\* not a point is at that place already
DupCandidates == { [x |-> 0, y |-> 3, z |-> 0], [x |-> 1, y |-> 4, z |-> 0],
                   [x |-> 1, y |-> 4, z |-> 1] }

DupBatches ==
  { b \in UNION { [1..n -> DupCandidates] : n \in 1..MaxBatch } :
      Len(points) - 3 + Len(b) <= MaxPoints }

NextDup ==
  \/ \E batch \in DupBatches : InsertCall(batch)
  \/ NextPoint
  \/ LocateStep
  \/ FixStep
  \/ GetTrianglesCall
  \/ AddRootStep
  \/ ExpandStep

SpecDup == Init /\ [][NextDup]_vars

\* ------------------------------------- findContainingTriangle, on its own
\* The net of the initial triangle split at (0, 3), and findContainingTriangle
\* called on it with any search identifier, any start (null too) and any of
\* three points; calls holds every call with its arguments and what it
\* returned (Undefined while it runs).
MaxFinds == 2

FindPoints ==
  BoundingPoints \o
  << [x |-> 0, y |-> 3, z |-> 0], [x |-> 1, y |-> 4, z |-> 0],
     [x |-> -2, y |-> 2, z |-> 0], [x |-> 6, y |-> 1, z |-> 0] >>

InitFind ==
  /\ points = FindPoints
  /\ cells = splitCells(<< Triangle(Arr3(point1, point2, point3), InitialNeighbors) >>, 1, 4)
  /\ root = 2
  /\ search = 0
  /\ pc = "ready"
  /\ pending = <<>>
  /\ pass = 0
  /\ queue = <<>>
  /\ fixes = <<>>
  /\ stack = <<>>
  /\ newRoot = Null
  /\ triangles = <<>>
  /\ hi = 0
  /\ result = <<>>
  /\ prevResult = <<>>
  /\ harvests = 0
  /\ dead = {1}
  /\ popped = <<>>
  /\ turns = 0
  /\ logged = <<>>
  /\ calls = <<>>

FindFrame ==
  UNCHANGED <<points, root, search, fixes, stack, newRoot, triangles, hi, result,
              prevResult, harvests, dead, popped, logged>>

Returned(value) == [calls EXCEPT ![Len(calls)][3] = value]

\* findContainingTriangle that tests its start for null only
FindCallUnstamped(id, start, point) ==
  /\ pc = "ready"
  /\ Len(calls) < MaxFinds
  /\ IF start = Null
     THEN /\ calls' = Append(calls, <<"findContainingTriangle", <<id, start, point>>, Null>>)
          /\ UNCHANGED <<pc, pass, pending, queue, turns>>
     ELSE /\ calls' = Append(calls, <<"findContainingTriangle", <<id, start, point>>, Undefined>>)
          /\ pc' = "search"
          /\ pass' = id
          /\ pending' = <<point>>
          /\ queue' = queueInsert(cells, point, <<>>, start)
          /\ turns' = 0
  /\ UNCHANGED cells
  /\ FindFrame

\* findContainingTriangle(search, root, point) up to its while loop
FindCall(id, start, point) ==
  /\ pc = "ready"
  /\ Len(calls) < MaxFinds
  /\ IF ~(start # Null /\ cells[start].search # id)
     THEN /\ calls' = Append(calls, <<"findContainingTriangle", <<id, start, point>>, Null>>)
          /\ UNCHANGED <<pc, pass, pending, queue, turns>>
     ELSE /\ calls' = Append(calls, <<"findContainingTriangle", <<id, start, point>>, Undefined>>)
          /\ pc' = "search"
          /\ pass' = id
          /\ pending' = <<point>>
          /\ queue' = queueInsert(cells, point, <<>>, start)
          /\ turns' = 0
  /\ UNCHANGED cells
  /\ FindFrame

\* one turn of the while loop of findContainingTriangle
FindTurn ==
  /\ pc = "search"
  /\ LET point == Head(pending) IN
     IF isEmpty(queue)
     THEN /\ calls' = Returned(Null)
          /\ pc' = "ready"
          /\ pending' = <<>>
          /\ turns' = 0
          /\ UNCHANGED <<cells, queue>>
     ELSE LET triangle == queuePop(queue)
          IN IF containsPoint(cells, triangle, point)
             THEN /\ calls' = Returned(triangle)
                  /\ queue' = queueAfterPop(cells, point, queue)
                  /\ UNCHANGED cells
                  /\ pc' = "ready"
                  /\ pending' = <<>>
                  /\ turns' = 0
             ELSE \E q1 \in { queueAfterPop(cells, point, queue) } :
                  \E e \in { expand(cells, q1, point, triangle, 0) } :
                     /\ cells' = e.cells
                     /\ queue' = e.queue
                     /\ turns' = (turns + 1) % 2
                     /\ UNCHANGED <<calls, pc, pending>>
  /\ UNCHANGED pass
  /\ FindFrame

NextFind ==
  \/ \E id \in 0..1 : \E start \in {Null, 2, 3, 4} : \E point \in 5..7 :
       FindCall(id, start, point)
  \/ FindTurn

SpecFind == InitFind /\ [][NextFind]_vars

\* ------------------------------------------------- a Triangle, on its own
\* One Triangle object (cells[1]) over points that are there already, and the
\* calls of its methods in any order.  calls holds the last call: its name,
\* its arguments and what it returned.
CachePoints ==
  << [x |-> 0, y |-> 0, z |-> 0], [x |-> 4, y |-> 0, z |-> 0],
     [x |-> 0, y |-> 4, z |-> 0], [x |-> 3, y |-> 3, z |-> 1],
     [x |-> 2, y |-> 2, z |-> 0] >>

InitCache ==
  /\ points = CachePoints
  /\ cells = << Triangle(Arr3(1, 2, 3), InitialNeighbors) >>
  /\ root = 1
  /\ search = 0
  /\ pc = "object"
  /\ pending = <<>>
  /\ pass = 0
  /\ queue = <<>>
  /\ fixes = <<>>
  /\ stack = <<>>
  /\ newRoot = Null
  /\ triangles = <<>>
  /\ hi = 0
  /\ result = <<>>
  /\ prevResult = <<>>
  /\ harvests = 0
  /\ dead = {}
  /\ popped = <<>>
  /\ turns = 0
  /\ logged = <<>>
  /\ calls = <<>>

CacheFrame ==
  UNCHANGED <<points, root, search, pc, pending, pass, queue, fixes, stack, newRoot,
              triangles, hi, result, prevResult, harvests, dead, popped, turns, logged>>

\* triangle.setPoint(index, point)
SetPointCall(index, point) ==
  /\ pc = "object"
  /\ cells' = setPoint(cells, 1, index, point)
  /\ calls' = << <<"setPoint", <<index, point>>, Null>> >>
  /\ CacheFrame

\* triangle.getCenter()
GetCenterCall ==
  /\ pc = "object"
  /\ cells' = fillCenter(cells, 1)
  /\ calls' = << <<"getCenter", <<>>, getCenter(cells, 1)>> >>
  /\ CacheFrame

\* triangle.getCircumcenter()
GetCircumcenterCall ==
  /\ pc = "object"
  /\ cells' = fillCircumcenter(cells, 1)
  /\ calls' = << <<"getCircumcenter", <<>>, getCircumcenter(cells, 1)>> >>
  /\ CacheFrame

\* triangle.getRadius()
GetRadiusCall ==
  /\ pc = "object"
  /\ cells' = fillRadius(cells, 1)
  /\ calls' = << <<"getRadius", <<>>, getRadius(cells, 1)>> >>
  /\ CacheFrame

NextCache ==
  \/ \E index \in 0..2 : \E point \in 1..Len(points) : SetPointCall(index, point)
  \/ GetCenterCall
  \/ GetCircumcenterCall
  \/ GetRadiusCall

SpecCache == InitCache /\ [][NextCache]_vars

\* ------------------------------------------------------- flip, on its own
\* Two triangles over the corners c, a, b and d, b, a that share the edge
\* (a, b), and a triangle beyond each of their four other edges.  Every
\* triangle lists its corners clockwise.  The corners of the two triangles
\* start at any index (r1, r2), and each of the four outer triangles is there
\* or not (outer).
FlipPoints ==
  << [x |-> -2, y |-> 0, z |-> 0], [x |-> 0, y |-> 2, z |-> 0],
     [x |-> 0, y |-> -2, z |-> 0], [x |-> 2, y |-> 0, z |-> 0],
     [x |-> -2, y |-> 2, z |-> 0], [x |-> -2, y |-> -2, z |-> 0],
     [x |-> 2, y |-> -2, z |-> 0], [x |-> 2, y |-> 2, z |-> 0] >>

Rotated(arr, r) == [i \in 0..2 |-> arr[(i + r) % 3]]

\* the cells 1 (c, a, b) and 2 (d, b, a), and the outer cells 3 beyond (c, a),
\* 4 beyond (b, c), 5 beyond (d, b), 6 beyond (a, d)
FlipCells(r1, r2, outer) ==
  LET n(t) == IF t \in outer THEN t ELSE Null
  IN << Triangle(Rotated(Arr3(1, 2, 3), r1), Rotated(Arr3(n(3), 2, n(4)), r1)),
        Triangle(Rotated(Arr3(4, 3, 2), r2), Rotated(Arr3(n(5), 1, n(6)), r2)),
        Triangle(Arr3(2, 1, 5), Arr3(IF 3 \in outer THEN 1 ELSE Null, Null, Null)),
        Triangle(Arr3(1, 3, 6), Arr3(IF 4 \in outer THEN 1 ELSE Null, Null, Null)),
        Triangle(Arr3(3, 4, 7), Arr3(IF 5 \in outer THEN 2 ELSE Null, Null, Null)),
        Triangle(Arr3(4, 2, 8), Arr3(IF 6 \in outer THEN 2 ELSE Null, Null, Null)) >>

InitFlip ==
  /\ points = FlipPoints
  /\ cells \in { FlipCells(r1, r2, outer) : r1 \in 0..2, r2 \in 0..2, outer \in SUBSET (3..6) }
  /\ root = 1
  /\ search = 0
  /\ pc = "flip"
  /\ pending = <<>>
  /\ pass = 0
  /\ queue = <<>>
  /\ fixes = <<>>
  /\ stack = <<>>
  /\ newRoot = Null
  /\ triangles = <<>>
  /\ hi = 0
  /\ result = <<>>
  /\ prevResult = <<>>
  /\ harvests = 0
  /\ dead = {}
  /\ popped = <<>>
  /\ turns = 0
  /\ logged = <<>>
  /\ calls = <<>>

\* flip(triangle1, triangle2)
FlipCall(triangle1, triangle2) ==
  /\ pc = "flip"
  /\ cells' = flip(cells, triangle1, triangle2)
  /\ pc' = "flipped"
  /\ calls' = << <<"flip", cells>> >>
  /\ UNCHANGED <<points, root, search, pending, pass, queue, fixes, stack, newRoot,
                 triangles, hi, result, prevResult, harvests, dead, popped, turns, logged>>

NextFlip == FlipCall(1, 2) \/ FlipCall(2, 1)

SpecFlip == InitFlip /\ [][NextFlip]_vars

\* ------------------------------------------------- priority queue (sorted list)
\* The first Queue of index.html: this.elements is a sorted array.  The
\* sequence q is this.elements, q[i + 1] being this.elements[i]; the elements
\* are numbers and this.compare is the difference, as in testSearchBinary.
MaxLen == 6
MaxKey == 3
MaxTurns == 8

compare(n1, n2) == n1 - n2

\* searchBinary, its while loop from the turn that starts with begin, end and
\* i: the index it returns and the turns it made, or NoIndex when the loop
\* still runs after MaxTurns turns.  elements[i] beyond the array is
\* undefined and compares as NaN, which is neither > 0 nor < 0.
RECURSIVE searchTurn(_, _, _, _, _, _)
searchTurn(elements, element, begin, end, i, n) ==
  IF n >= MaxTurns THEN [index |-> NoIndex, turns |-> n]
  ELSE LET j == i
           mid == begin + (end - begin) \div 2
       IN IF mid >= Len(elements) THEN [index |-> mid, turns |-> n + 1]
          ELSE LET c == compare(element, elements[mid + 1])
               IN IF c > 0
                  THEN IF mid = j THEN [index |-> mid + 1, turns |-> n + 1]
                       ELSE searchTurn(elements, element, mid, end, mid, n + 1)
                  ELSE IF c < 0
                       THEN IF mid = j THEN [index |-> mid, turns |-> n + 1]
                            ELSE searchTurn(elements, element, begin, mid, mid, n + 1)
                       ELSE [index |-> mid, turns |-> n + 1]

\* searchBinary that leaves the last element out of its search
searchBinaryShort(elements, element) ==
  IF Len(elements) <= 0 THEN [index |-> 0, turns |-> 0]
  ELSE searchTurn(elements, element, 0, Len(elements) - 1, 0, 0)

searchBinary(elements, element) ==
  IF Len(elements) <= 0 THEN [index |-> 0, turns |-> 0]
  ELSE searchTurn(elements, element, 0, Len(elements), 0, 0)

\* this.elements.splice(index, 0, element)
splice(elements, index, element) ==
  IF index \in 0..Len(elements)
  THEN SubSeq(elements, 1, index) \o <<element>> \o SubSeq(elements, index + 1, Len(elements))
  ELSE elements

\* the arrays that are sorted ascending under compare
SortedArrays ==
  { a \in UNION { [1..n -> 0..MaxKey] : n \in 0..MaxLen } :
      \A i \in 1..Len(a) - 1 : compare(a[i], a[i + 1]) <= 0 }

InitSorted ==
  /\ points = <<>>
  /\ cells = <<>>
  /\ root = Null
  /\ search = 0
  /\ pc = "sorted"
  /\ pending = <<>>
  /\ pass = 0
  /\ queue \in SortedArrays
  /\ fixes = <<>>
  /\ stack = <<>>
  /\ newRoot = Null
  /\ triangles = <<>>
  /\ hi = 0
  /\ result = <<>>
  /\ prevResult = <<>>
  /\ harvests = 0
  /\ dead = {}
  /\ popped = <<>>
  /\ turns = 0
  /\ logged = <<>>
  /\ calls = <<>>

\* queue.insert(element); calls holds the last call, with the elements it
\* found and what searchBinary returned
SortedInsertCall(element) ==
  /\ pc = "sorted"
  /\ Len(queue) < MaxLen
  /\ queue' = splice(queue, searchBinary(queue, element).index, element)
  /\ calls' = << <<"insert", <<queue, element>>, searchBinary(queue, element)>> >>
  /\ UNCHANGED <<points, cells, root, search, pc, pending, pass, fixes, stack, newRoot,
                 triangles, hi, result, prevResult, harvests, dead, popped, turns, logged>>

\* queue.pop(), called when the queue is not empty
SortedPopCall ==
  /\ pc = "sorted"
  /\ Len(queue) > 0
  /\ queue' = SubSeq(queue, 1, Len(queue) - 1)
  /\ calls' = << <<"pop", <<queue>>, queue[Len(queue)]>> >>
  /\ UNCHANGED <<points, cells, root, search, pc, pending, pass, fixes, stack, newRoot,
                 triangles, hi, result, prevResult, harvests, dead, popped, turns, logged>>

NextSorted ==
  \/ \E element \in 0..MaxKey : SortedInsertCall(element)
  \/ SortedPopCall

SpecSorted == InitSorted /\ [][NextSorted]_vars

\* ------------------------------------------------ the queue, used on its own
\* A Queue with the comparator of findContainingTriangle for the point (0, 0),
\* and four triangles to put into it.  Their nearest corners, which are their
\* first ones, lie at squared distances 1, 4, 4 and 9 from that point.
QueuePoints ==
  << [x |-> 0, y |-> 0, z |-> 0],
     [x |-> 1, y |-> 0, z |-> 0], [x |-> 2, y |-> 1, z |-> 0], [x |-> 2, y |-> -1, z |-> 0],
     [x |-> 2, y |-> 0, z |-> 0], [x |-> 3, y |-> 1, z |-> 0], [x |-> 3, y |-> -1, z |-> 0],
     [x |-> 0, y |-> 2, z |-> 0], [x |-> 1, y |-> 3, z |-> 0], [x |-> -1, y |-> 3, z |-> 0],
     [x |-> 3, y |-> 0, z |-> 0], [x |-> 4, y |-> 1, z |-> 0], [x |-> 4, y |-> -1, z |-> 0] >>

QueueCells ==
  [t \in 1..4 |-> Triangle(Arr3(3 * t - 1, 3 * t, 3 * t + 1), InitialNeighbors)]

\* the `point` of the comparator function(x, y){ return compareTriangles(point, x, y) }
KeyPoint == 1

InitQueue ==
  /\ points = QueuePoints
  /\ cells = QueueCells
  /\ root = Null
  /\ search = 0
  /\ pc = "queue"
  /\ pending = <<>>
  /\ pass = 0
  /\ queue = <<>>
  /\ fixes = <<>>
  /\ stack = <<>>
  /\ newRoot = Null
  /\ triangles = <<>>
  /\ hi = 0
  /\ result = <<>>
  /\ prevResult = <<>>
  /\ harvests = 0
  /\ dead = {}
  /\ popped = <<>>
  /\ turns = 0
  /\ logged = <<>>
  /\ calls = <<>>

\* queue.insert(element)
QueueInsertCall(element) ==
  /\ pc = "queue"
  /\ Len(calls) < MaxCalls
  /\ queue' = queueInsert(cells, KeyPoint, queue, element)
  /\ calls' = Append(calls, <<"insert", element>>)
  /\ UNCHANGED <<points, cells, root, search, pc, pending, pass, fixes, stack, newRoot,
                 triangles, hi, result, prevResult, harvests, dead, popped, turns, logged>>

\* queue.pop(), called as findContainingTriangle calls it: after isEmpty()
\* returned false
QueuePopCall ==
  /\ pc = "queue"
  /\ Len(calls) < MaxCalls
  /\ ~isEmpty(queue)
  /\ queue' = queueAfterPop(cells, KeyPoint, queue)
  /\ calls' = Append(calls, <<"pop", queuePop(queue)>>)
  /\ UNCHANGED <<points, cells, root, search, pc, pending, pass, fixes, stack, newRoot,
                 triangles, hi, result, prevResult, harvests, dead, popped, turns, logged>>

NextQueue ==
  \/ \E element \in 1..Len(cells) : QueueInsertCall(element)
  \/ QueuePopCall

SpecQueue == InitQueue /\ [][NextQueue]_vars

\* ------------------------------------------------------------- the net, read
\* the triangles that exist and were not replaced by a split
Live == { t \in 1..Len(cells) : t \notin dead }

Neighbors(t) == { cells[t].neighbors[i] : i \in 0..2 } \ {Null, Undefined}

\* the triangles reachable from those of S along neighbor references
RECURSIVE Reach(_)
Reach(S) ==
  IF (S \cup UNION { Neighbors(t) : t \in S }) = S THEN S
  ELSE Reach(S \cup UNION { Neighbors(t) : t \in S })

Vertices(t) == { cells[t].points[i] : i \in 0..2 }

\* the points inserted so far whose triangle was found and split
Inserted == { p \in 4..Len(points) : \E t \in 1..Len(cells) : p \in Vertices(t) }

TouchesBounding(t) == Vertices(t) \cap {point1, point2, point3} # {}

\* the point p lies inside the circumcircle of t, by the test of
\* investigateAndFixTriangle
InCircumcircle(t, p) ==
  strictlyLessThan(
    calculateDistanceSquarePlane(calculateCircumcentre(cells[t].points), P(p)),
    calculateDistanceSquarePlane(calculateCircumcentre(cells[t].points),
                                 P(cells[t].points[0])))

\* an insert call is running
InsertRunning == pc \in {"next", "locate", "fix"}

\* the point whose split created the triangle t (t > 1): the k-th split appends
\* the triangles 3k-1, 3k, 3k+1 for the point 3+k
Creator(t) == 3 + (t + 1) \div 3

\* a flip has given t a vertex other than those its split gave it
Flipped(t) == \E p \in Vertices(t) : p > Creator(t)

\* -------------------------------------------------------------------- claims
\* C1: Delaunay property.  After every insert call has returned, for every
\* live triangle T and every inserted point P, P is a vertex of T or P is not
\* strictly inside the circumcircle of T under the tolerance test.
C1_Delaunay ==
  ~InsertRunning =>
    \A t \in Live : \A p \in Inserted : p \in Vertices(t) \/ ~InCircumcircle(t, p)

\* C2: neighbor symmetry.  In every state where no insert call runs, for every
\* live triangle A and slot i with A.neighbors[i] = B not null, B.neighbors
\* holds A in exactly one slot.
C2_NeighborSymmetry ==
  ~InsertRunning =>
    \A a \in Live : \A i \in 0..2 :
      ~IsNull(cells[a].neighbors[i]) =>
        Cardinality({ j \in 0..2 : cells[cells[a].neighbors[i]].neighbors[j] = a }) = 1

\* C2 happens: an insert has returned, and a live triangle that a flip rewired
\* has a neighbor
C2_Witness ==
  ~InsertRunning /\ \E a \in Live : a > 1 /\ Flipped(a) /\ Neighbors(a) # {}

\* C3: connectivity.  After every completed insert call, starting from any live
\* triangle, every other live triangle is reachable along non-null neighbor
\* references, and nothing else is.
C3_Connectivity == ~InsertRunning => \A a \in Live : Reach({a}) = Live

\* C3 happens: after two splits some live triangle is no neighbor of the root,
\* so that reaching it takes more than one reference
C3_Witness ==
  /\ ~InsertRunning
  /\ Cardinality(Live) >= 5
  /\ \E a \in Live : a # root /\ a \notin Neighbors(root)

\* the point being located lies in some / in no triangle reachable from the root
SomeCellContains ==
  \E t \in Reach({root}) : containsPoint(cells, t, Head(pending))
NoCellContains ==
  \A t \in Reach({root}) : ~containsPoint(cells, t, Head(pending))

\* C4: point location finds a containing triangle when one exists.  If some
\* triangle reachable from the start triangle contains the point, then
\* findContainingTriangle returns, and whenever it returns it returns a
\* triangle that contains the point (insert goes on to split it).
C4_LocateFinds ==
  /\ (pc = "locate" /\ SomeCellContains) ~> (pc = "fix")
  /\ [][pc = "locate" /\ pc' # "locate" =>
          pc' = "fix" /\ containsPoint(cells, queuePop(queue), Head(pending))]_vars

\* C4 happens: findContainingTriangle has just returned a triangle after it
\* popped two other triangles that do not contain the point
C4_Witness ==
  /\ pc = "fix" /\ stack = <<>> /\ Len(fixes) = 3
  /\ Cardinality({ popped[i] : i \in 1..Len(popped) }) >= 2

\* C5: point location reports failure on exhaustion.  When no triangle
\* reachable from the start triangle contains the point, then once every
\* reachable triangle has been popped the queue is empty (and the loop of
\* findContainingTriangle ends with "not found").
C5_LocateExhausts ==
  (pc = "locate" /\ NoCellContains /\ \A t \in Reach({root}) : Count(popped, t) >= 1)
    => isEmpty(queue)

\* C6: a location failure is not fatal.  A point that no reachable triangle
\* contains is skipped and reported, the later points of the array are
\* processed and the insert call returns.
C6_FailureIsSkipped ==
  (pc = "locate" /\ NoCellContains) ~> (pc = "idle" /\ pending = <<>> /\ logged # <<>>)

\* C7: every operation terminates.  Every insert call and every getTriangles
\* call returns.
C7_Terminates == (pc # "idle") ~> (pc = "idle")

\* the triangles a completed getTriangles returned
Harvested == { result[i] : i \in 1..Len(result) }

\* C8: harvest completeness.  What getTriangles returned holds every live
\* triangle none of whose vertices is point1, point2 or point3.
C8_HarvestComplete ==
  (pc = "idle" /\ harvests >= 1) =>
    \A t \in Live : ~TouchesBounding(t) => t \in Harvested

\* C9: harvest filtering.  What getTriangles returns never holds a triangle
\* that has point1, point2 or point3 as a vertex, never a triangle that a
\* split has replaced, and never the same triangle twice; on the initial mesh
\* it is empty.
C9_HarvestFiltered ==
  /\ \A i \in 1..Len(result) :
       /\ ~TouchesBounding(result[i])
       /\ result[i] \notin dead
       /\ \A j \in 1..Len(result) : result[j] = result[i] => j = i
  /\ (Len(points) = 3 /\ harvests >= 1) => result = <<>>

\* C9 happens: getTriangles has returned a triangle from a mesh that also has
\* triangles at the bounding points and triangles that were split
C9_Witness ==
  /\ pc = "idle" /\ harvests >= 1 /\ result # <<>> /\ dead # {}
  /\ \E t \in Live : TouchesBounding(t)

\* the vertex triples of the triangles in the array trs
Triples(trs) == { Vertices(trs[i]) : i \in 1..Len(trs) }

\* C10: idempotent harvest.  Two consecutive getTriangles calls with no insert
\* in between return the same set of triangles, compared as vertex triples.
C10_HarvestIdempotent ==
  (pc = "idle" /\ harvests >= 2) => Triples(result) = Triples(prevResult)

\* C10 happens: a second getTriangles call in a row has returned, and the
\* first one returned some triangle
C10_Witness == pc = "idle" /\ harvests >= 2 /\ prevResult # <<>>

\* ------------------------------------------------------------------ C11
\* the vertices and the neighbor links of every triangle created so far
Net ==
  [t \in 1..Len(cells) |-> [points |-> cells[t].points, neighbors |-> cells[t].neighbors]]

HarvestRunning == pc \in {"addRoot", "expand"}

\* C11: no step of a getTriangles call (its start, the turns of addRoot and of
\* collectTriangles, its return) changes the vertices or a neighbor link of
\* any triangle, the root, the points or which triangles are live; it changes
\* only search stamps, the pass counter and the array it fills.  And every
\* locate pass of insert starts under an identifier that no triangle carries,
\* so that the stamps a harvest left behind are never read as its own: the
\* inserts after a harvest run as they would have run without it.
C11_HarvestFrame ==
  /\ [][(HarvestRunning \/ HarvestRunning') =>
          Net' = Net /\ root' = root /\ points' = points /\ dead' = dead]_vars
  /\ [][pc = "next" /\ pc' = "locate" =>
          \A t \in 1..Len(cells) : cells[t].search # pass']_vars

\* an insert of a second or later point has completed after a harvest was made
C11_Witness ==
  /\ pc = "idle" /\ harvests = 0 /\ logged = <<>>
  /\ Len(points) >= 5
  /\ search > Len(points) - 3

\* ------------------------------------------------------------------ C12
\* the live triangles that contain the point insert is locating
Containing == { t \in Live : containsPoint(cells, t, Head(pending)) }

\* twice the signed area of the points a, b, c
Cross(a, b, c) == (b.x - a.x) * (c.y - a.y) - (b.y - a.y) * (c.x - a.x)

\* p lies on the closed segment from a to b
OnSegment(a, b, p) ==
  /\ Cross(a, b, p) = 0
  /\ (a.x <= p.x /\ p.x <= b.x) \/ (b.x <= p.x /\ p.x <= a.x)
  /\ (a.y <= p.y /\ p.y <= b.y) \/ (b.y <= p.y /\ p.y <= a.y)

\* the Point object p lies on an edge of triangle t
OnEdge(t, p) ==
  \E i, j \in 0..2 :
    i < j /\ OnSegment(points[cells[t].points[i]], points[cells[t].points[j]], points[p])

Split ==
  { p \in 4..Len(points) :
      /\ \A i \in 1..Len(logged) : logged[i] # p
      /\ \/ \A i \in 1..Len(pending) : pending[i] # p
         \/ pc = "fix" /\ p = Head(pending) }

\* C13: point1, point2, point3 and every point whose location succeeded are
\* vertices of at least one live triangle, after every completed insert and
\* also after every single flip of a repair that is still running: no flip
\* drops a vertex from the mesh.
C13_VerticesPersist ==
  \A p \in {point1, point2, point3} \cup Split : \E t \in Live : p \in Vertices(t)

\* two points are in the mesh, and the repair of the second one has flipped a
\* triangle that the first insert had made
C13_Witness ==
  /\ pc = "idle"
  /\ Cardinality(Split) >= 2
  /\ \E t \in Live : Creator(t) = 4 /\ Flipped(t)

\* ------------------------------------------------------------------ C14
\* the points of the array that insert has not reached yet
Waiting ==
  { pending[i] : i \in (IF pc \in {"locate", "fix"} THEN 2 ELSE 1)..Len(pending) }

\* C14: insert handles the points in array order and one at a time.  The
\* points not yet handled are always the last ones of the array, in its order;
\* while a point is located or its triangle split and repaired, every point
\* before it is in the mesh or was reported, no repair of an earlier point is
\* still open, and no point after it is a vertex of any triangle.  The state
\* that insert keeps from one point to the next is the mesh, the root and the
\* pass counter only: the return of a call and the start of the next call
\* change none of them, and every point takes exactly one pass identifier.  So
\* insert([a, b]) and insert([a]) followed by insert([b]) reach the location
\* of b with the same mesh, root and pass counter, and end alike.
C14_ArrayOrder ==
  /\ [](pending = [i \in 1..Len(pending) |-> Len(points) - Len(pending) + i])
  /\ [](\A p \in 4..Len(points) :
          \/ p \in Waiting /\ \A t \in 1..Len(cells) : p \notin Vertices(t)
          \/ p \in Split
          \/ \E i \in 1..Len(logged) : logged[i] = p
          \/ pc = "locate" /\ p = Head(pending))
  /\ [](pc \in {"next", "locate", "idle"} => stack = <<>> /\ fixes = <<>>)
  /\ [][pc' # pc /\ "idle" \in {pc, pc'} /\ "next" \in {pc, pc'} =>
          cells' = cells /\ root' = root /\ search' = search /\ dead' = dead]_vars
  /\ [][pc = "next" /\ pc' # "idle" => search' = search + 1]_vars
  /\ [][(pc \in {"locate", "fix"}) => search' = search]_vars

\* in a call with an array of two points the triangle that contains the first
\* point has been split and is being repaired; the second point waits
C14_Witness ==
  /\ pc = "fix" /\ stack # <<>>
  /\ Len(pending) = 2
  /\ Waiting = {Len(points)}

\* ------------------------------------------------------------- C15, C16
\* the calls among the first n that inserted / that popped the element e
InsertsOf(e, n) == Cardinality({ i \in 1..n : calls[i] = <<"insert", e>> })
PopsOf(e, n) == Cardinality({ i \in 1..n : calls[i] = <<"pop", e>> })

IsPop(i) == calls[i][1] = "pop"

\* the comparator of the queue: compare(a, b) <= 0
NotAfter(a, b) == LessEq(compareTriangles(cells, KeyPoint, a, b), Num(0))

\* C15: every pop returned an element e with compare(e, x) <= 0 for every x
\* the queue held before it; the queue holds what was inserted minus what was
\* popped, each element as often as it was inserted and not popped; and
\* isEmpty() is true exactly when as many pops as inserts were made, also
\* after the only element was popped.
C15_HeapPop ==
  pc = "queue" =>
    /\ \A i \in 1..Len(calls) : IsPop(i) =>
         \A x \in 1..Len(cells) :
           InsertsOf(x, i - 1) - PopsOf(x, i - 1) > 0 => NotAfter(calls[i][2], x)
    /\ \A x \in 1..Len(cells) :
         Count(queue, x) = InsertsOf(x, Len(calls)) - PopsOf(x, Len(calls))
    /\ isEmpty(queue) <=>
         Cardinality({ i \in 1..Len(calls) : IsPop(i) }) * 2 = Len(calls)

\* C16 as stated: over any interleaving of insert and pop calls, the results
\* of the pops are non-decreasing in the order of the pops.
C16_PopsAscend ==
  pc = "queue" =>
    \A i, j \in 1..Len(calls) :
      i < j /\ IsPop(i) /\ IsPop(j) => NotAfter(calls[i][2], calls[j][2])

\* C16, amended: the results of pops that follow one another with no insert
\* in between are non-decreasing.
C16_PopRunsAscend ==
  pc = "queue" =>
    \A i \in 1..(Len(calls) - 1) :
      IsPop(i) /\ IsPop(i + 1) => NotAfter(calls[i][2], calls[i + 1][2])

\* three pops in a row have returned triangles at three different distances,
\* out of a queue that had been filled in another order
C16_Witness ==
  /\ pc = "queue"
  /\ \E i \in 1..(Len(calls) - 2) :
       /\ IsPop(i) /\ IsPop(i + 1) /\ IsPop(i + 2)
       /\ ~NotAfter(calls[i + 1][2], calls[i][2])
       /\ ~NotAfter(calls[i + 2][2], calls[i + 1][2])
       /\ \E k \in 1..(i - 2) : ~NotAfter(calls[k][2], calls[k + 1][2])

\* ------------------------------------------------------------------ C17
\* twice the area of triangle t
Area2(t) ==
  Abs(Cross(points[cells[t].points[0]], points[cells[t].points[1]],
            points[cells[t].points[2]]))

RECURSIVE Area2Sum(_)
Area2Sum(trs) == IF trs = <<>> THEN 0 ELSE Area2(Head(trs)) + Area2Sum(Tail(trs))

\* twice the area of the convex hull of four points: the four triangles that
\* three of them form cover the hull exactly twice
HullArea2(S) ==
  LET threes == { T \in SUBSET S : Cardinality(T) = 3 }
      area(T) == LET a == CHOOSE p \in T : TRUE
                     b == CHOOSE p \in T \ {a} : TRUE
                     c == CHOOSE p \in T \ {a, b} : TRUE
                 IN Abs(Cross(points[a], points[b], points[c]))
      RECURSIVE total(_)
      total(Ts) == IF Ts = {} THEN 0
                   ELSE LET T == CHOOSE U \in Ts : TRUE IN area(T) + total(Ts \ {T})
  IN total(threes) \div 2

\* the line through an edge of t1 has t2 on the side away from t1's third corner
Separates(t1, t2) ==
  \E i \in 0..2 :
    LET a == points[cells[t1].points[i]]
        b == points[cells[t1].points[(i + 1) % 3]]
        c == points[cells[t1].points[(i + 2) % 3]]
    IN \A j \in 0..2 :
         Sign(Cross(a, b, points[cells[t2].points[j]])) * Sign(Cross(a, b, c)) <= 0

\* the interiors of t1 and t2 share no point
NonOverlapping(t1, t2) == Separates(t1, t2) \/ Separates(t2, t1)

\* the example's four points have been inserted and harvested
ExampleDone ==
  pc = "idle" /\ harvests >= 1 /\ Len(points) = 3 + Len(ExamplePoints)

\* C17: after new Delaunay(0, 10, 0, 10) and the insertion of (5,5), (1,1),
\* (9,1), (5,9), getTriangles returns triangles over these four points whose
\* interiors do not overlap, whose union is the convex hull of the four points
\* (the areas add up to the area of the hull), and none of whose circumcircles
\* has another of the four points strictly inside.
C17_Example ==
  ExampleDone =>
    /\ \A i, j \in 1..Len(result) : i < j => NonOverlapping(result[i], result[j])
    /\ \A i \in 1..Len(result) : Vertices(result[i]) \subseteq 4..Len(points)
    /\ Area2Sum(result) = HullArea2(4..Len(points))
    /\ \A i \in 1..Len(result) : \A p \in 4..Len(points) :
         p \in Vertices(result[i]) \/ ~InCircumcircle(result[i], p)

\* ------------------------------------------------------------------ C18
\* twice the signed area of a, b, c, for points with coordinates in
\* (a + b * sqrt(3)) / d
SurdCross(a, b, c) ==
  SurdSub(SurdMul(SurdSub(b.x, a.x), SurdSub(c.y, a.y)),
          SurdMul(SurdSub(b.y, a.y), SurdSub(c.x, a.x)))

\* (x, y) lies inside the triangle point1, point2, point3 and on none of its edges
StrictlyInside(x, y) ==
  LET q == [x |-> Surd(x, 0, 1), y |-> Surd(y, 0, 1)]
      s1 == SurdSign(SurdCross(points[point1], points[point2], q))
      s2 == SurdSign(SurdCross(points[point2], points[point3], q))
      s3 == SurdSign(SurdCross(points[point3], points[point1], q))
  IN s1 # 0 /\ s1 = s2 /\ s2 = s3

\* the rectangle the constructor was called with
Box == calls[1][2]

\* C18: for every rectangle, also one of width 0 or of height 0, every point
\* of the rectangle lies strictly inside the triangle point1, point2, point3
\* that the constructor made.
C18_BoundingContains ==
  pc = "constructed" =>
    \A x \in Box.min_x..Box.max_x : \A y \in Box.min_y..Box.max_y : StrictlyInside(x, y)

\* ------------------------------------------------------------------ C19
\* the least of the squared planar distances from point p to the three
\* corners of triangle t
Nearest(p, t) ==
  LET ds == { calculateDistanceSquarePlane(P(p), P(cells[t].points[i])) : i \in 0..2 }
  IN CHOOSE d \in ds : \A e \in ds : LessEq(d, e)

\* C19: for the point being located and every triangle, minimalDistance
\* returns the least squared planar distance from the point to a corner of
\* the triangle, and compareTriangles is negative exactly when the nearest
\* corner of the first triangle is closer than the nearest corner of the
\* second one.
C19_NearestCorner ==
  pc = "locate" =>
    /\ \A t \in 1..Len(cells) :
         minimalDistance(cells, Head(pending), t) = Nearest(Head(pending), t)
    /\ \A a, b \in 1..Len(cells) :
         Less(compareTriangles(cells, Head(pending), a, b), Num(0))
           <=> Less(Nearest(Head(pending), a), Nearest(Head(pending), b))

\* ------------------------------------------------------------------ C20
\* the corners of t lie on one line or two of them at one place: the
\* denominators of calculateCircumcentre and isPointInTriangle, which are the
\* doubled signed area of t up to the sign and a factor 2, are zero
Degenerate(t) == Area2(t) = 0

\* C20: the program never takes a result from a triangle whose denominator is
\* zero.  No triangle holds a circumcenter that getCircumcenter computed by a
\* division by zero, and no locate pass has gone on after containsPoint
\* answered for such a triangle: both calls end with an error instead.
C20_DegenerateRejected ==
  /\ \A t \in 1..Len(cells) :
       cells[t].circumcenter # <<>> =>
         /\ ~Degenerate(t)
         /\ IsFinite(cells[t].circumcenter[1].x)
         /\ IsFinite(cells[t].circumcenter[1].y)
  /\ \A i \in 1..Len(popped) : ~Degenerate(popped[i])

\* ------------------------------------------------------------------ C21
\* the Point objects that are a corner of some live triangle
MeshVertices == UNION { Vertices(t) : t \in Live }

\* C21: a point at the planar position of a point of the mesh is rejected
\* before it is inserted and the mesh stays as it is: no two different corners
\* of the mesh are at one planar position, whatever the caller hands over.
C21_DuplicateRejected ==
  \A p, q \in MeshVertices : p # q => ~SamePlace(points[p], points[q])

\* ------------------------------------------------------------------ C22
\* the sides of the three edges of t on which the Point object p lies, each
\* seen from the corner opposite the edge: 1 the corner's side, 0 on the line
\* of the edge, -1 the other side
Sides(t, p) ==
  LET v(i) == points[cells[t].points[i % 3]]
  IN { Sign(Cross(v(i), v(i + 1), points[p])) * Sign(Cross(v(i), v(i + 1), v(i + 2))) :
         i \in 0..2 }

StrictlyInsideCell(t, p) == Sides(t, p) = {1}
OnBoundary(t, p) == -1 \notin Sides(t, p) /\ 0 \in Sides(t, p)
StrictlyOutside(t, p) == -1 \in Sides(t, p)

\* C22: for every triangle that is not degenerate and every point,
\* containsPoint is true when the point lies strictly inside the triangle, on
\* one of its edges or at one of its corners, and false when it lies strictly
\* outside.
C22_InclusiveBoundary ==
  pc = "locate" =>
    \A t \in 1..Len(cells) : ~Degenerate(t) =>
      \A p \in 1..Len(points) :
        containsPoint(cells, t, p) <=> ~StrictlyOutside(t, p)

\* while a point is located that lies on an edge of a triangle with positive
\* area, the mesh also has a triangle with that point strictly inside and one
\* with it strictly outside
C22_Witness ==
  /\ pc = "locate"
  /\ \E t \in Live : ~Degenerate(t) /\ Head(pending) \notin Vertices(t)
                     /\ OnBoundary(t, Head(pending))
  /\ \E t \in 1..Len(cells) : ~Degenerate(t) /\ StrictlyInsideCell(t, Head(pending))
  /\ \E t \in Live : ~Degenerate(t) /\ StrictlyOutside(t, Head(pending))

\* ------------------------------------------------------------------ C23
\* the slots of triangle t, in the cells cs, that hold the triangle n
SlotsOf(cs, t, n) == { j \in 0..2 : cs[t].neighbors[j] = n }

\* C23: the step in which insert splits the triangle T it has located around
\* the point P appends exactly three triangles and changes no corner.  Each
\* new triangle has P and two corners of T, has the two other new triangles as
\* neighbors, and its third neighbor is one of T's: the three new triangles
\* take over T's three neighbor slots one each.  Every triangle that was a
\* neighbor of T now holds the new triangle that took it over where it held T,
\* and no live triangle holds T any more.
C23_SplitPostcondition ==
  [][pc = "locate" /\ pc' = "fix" =>
       LET T == queuePop(queue)
           point == Head(pending)
           n == Len(cells)
           kids == {n + 1, n + 2, n + 3}
       IN /\ Len(cells') = n + 3
          /\ \A t \in 1..n : cells'[t].points = cells[t].points
          /\ \A k \in kids :
               /\ point \in { cells'[k].points[j] : j \in 0..2 }
               /\ Cardinality({ cells'[k].points[j] : j \in 0..2 } \cap Vertices(T)) = 2
               /\ \A o \in kids \ {k} : Cardinality(SlotsOf(cells', k, o)) = 1
          /\ \E f \in [0..2 -> kids] :
               /\ \A i, j \in 0..2 : i # j => f[i] # f[j]
               /\ \A i \in 0..2 :
                    LET N == cells[T].neighbors[i]
                    IN /\ SlotsOf(cells', f[i], N) # {}
                       /\ ~IsNull(N) =>
                            /\ SlotsOf(cells', N, f[i]) = SlotsOf(cells, N, T)
                            /\ SlotsOf(cells, N, T) # {}
          /\ \A t \in 1..(n + 3) : t \notin dead' => SlotsOf(cells', t, T) = {}
          /\ dead' = dead \cup {T}]_vars

\* a triangle with three neighbors has just been split: each of the three new
\* triangles has a triangle in every slot, and no repair has started
C23_Witness ==
  /\ pc = "fix" /\ Len(fixes) = 3 /\ stack = <<>>
  /\ \A k \in { fixes[i] : i \in 1..3 } : \A j \in 0..2 : ~IsNull(cells[k].neighbors[j])

\* ------------------------------------------------------------------ C24
\* the slot of triangle t that borders the edge between the corners p and q
EdgeSlot(cs, t, p, q) ==
  { i \in 0..2 : {cs[t].points[i], cs[t].points[(i + 1) % 3]} = {p, q} }

\* C24: after flip on two neighboring triangles that share the edge (a, b),
\* wherever that edge sits in either of them: both triangles have the two
\* corners c and d that were not shared, and one of a and b each; each holds
\* the other one in the slot of the new edge (c, d); each of the four outer
\* triangles is held, in the slot of the edge they share, by the one of the
\* two that now has that edge, and holds that one where it held its neighbor
\* before; and nothing else is changed in any cell.
C24_FlipPostcondition ==
  pc = "flipped" =>
    /\ \A t \in {1, 2} :
         /\ {1, 4} \subseteq Vertices(t)
         /\ Cardinality(Vertices(t) \cap {2, 3}) = 1
         /\ Cardinality(Vertices(t)) = 3
         /\ EdgeSlot(cells, t, 1, 4) = SlotsOf(cells, t, 3 - t)
         /\ Cardinality(SlotsOf(cells, t, 3 - t)) = 1
    /\ Vertices(1) # Vertices(2)
    /\ \A o \in 3..6 :
         LET p == cells[o].points[0]
             q == cells[o].points[1]
             was == calls[1][2][o].neighbors[0]
         IN /\ cells[o].points = calls[1][2][o].points
            /\ cells[o].neighbors[1] = Null /\ cells[o].neighbors[2] = Null
            /\ IF was = Null
               THEN /\ cells[o].neighbors[0] = Null
                    /\ \A t \in {1, 2} : SlotsOf(cells, t, o) = {}
                    /\ \A t \in {1, 2} : {p, q} \subseteq Vertices(t) =>
                         \A i \in EdgeSlot(cells, t, p, q) : cells[t].neighbors[i] = Null
               ELSE \E t \in {1, 2} :
                      /\ {p, q} \subseteq Vertices(t)
                      /\ cells[o].neighbors[0] = t
                      /\ SlotsOf(cells, t, o) = EdgeSlot(cells, t, p, q)
                      /\ SlotsOf(cells, 3 - t, o) = {}

\* a flip was made on two triangles that hold the shared edge at different
\* slots and have all four outer neighbors
C24_Witness ==
  /\ pc = "flipped"
  /\ EdgeSlot(calls[1][2], 1, 2, 3) # EdgeSlot(calls[1][2], 2, 2, 3)
  /\ \A o \in 3..6 : calls[1][2][o].neighbors[0] # Null

\* ------------------------------------------------------------------ C25
\* the slot i of triangle A holds a triangle that has both ends of the edge
\* points[i], points[i+1] of A
SlotKept(A, i) ==
  LET B == cells[A].neighbors[i]
  IN B # Null =>
       /\ B \in 1..Len(cells)
       /\ {cells[A].points[i], cells[A].points[(i + 1) % 3]} \subseteq Vertices(B)

\* C25: when no insert is running, every neighbor that a live triangle holds
\* in a slot has both ends of that slot's edge among its corners.
C25_SlotConvention ==
  ~InsertRunning => \A A \in Live : \A i \in 0..2 : SlotKept(A, i)

\* an insert has ended after a flip, in a mesh of seven triangles
C25_Witness ==
  /\ pc = "idle"
  /\ Cardinality(Live) >= 7
  /\ \E t \in Live : Flipped(t)
  /\ \E A \in Live : \A i \in 0..2 : cells[A].neighbors[i] # Null

\* ------------------------------------------------------------------ C26
\* the sign of the turn that the corners of t make in their order
Orientation(t) ==
  Sign(Cross(points[cells[t].points[0]], points[cells[t].points[1]],
             points[cells[t].points[2]]))

\* C26: when no insert is running, every live triangle lists its corners in
\* the order of the bounding triangle (point1, point2, point3), clockwise,
\* and they make a turn: the orientation is not zero.
C26_Clockwise ==
  ~InsertRunning =>
    \A t \in Live :
      Orientation(t) = Sign(Cross(points[point1], points[point2], points[point3]))

\* ------------------------------------------------------------------ C27
\* C27: whatever calls of setPoint, getCenter, getCircumcenter and getRadius
\* came before, a getter returns the value computed from the three corners the
\* triangle has at that call, and setPoint empties the three caches and
\* changes the corner at its index and no other.
C27_CacheCoherence ==
  [][/\ calls'[1][1] = "getCenter" => calls'[1][3] = calculateCenter(cells[1].points)
     /\ calls'[1][1] = "getCircumcenter" => calls'[1][3] = calculateCircumcentre(cells[1].points)
     /\ calls'[1][1] = "getRadius" => calls'[1][3] =
          calculateDistanceSquarePlane(calculateCircumcentre(cells[1].points),
                                       P(cells[1].points[0]))
     /\ calls'[1][1] = "setPoint" =>
          LET index == calls'[1][2][1]
              point == calls'[1][2][2]
          IN /\ cells'[1].points[index] = point
             /\ \A i \in 0..2 \ {index} : cells'[1].points[i] = cells[1].points[i]
             /\ cells'[1].center = <<>>
             /\ cells'[1].circumcenter = <<>>
             /\ cells'[1].radius = <<>>
             /\ cells'[1].neighbors = cells[1].neighbors
             /\ cells'[1].search = cells[1].search]_vars

\* getRadius has returned the value of corners that setPoint put there after
\* an earlier getRadius had filled the cache for other corners
C27_Witness ==
  /\ pc = "object"
  /\ calls # <<>> /\ calls[1][1] = "getRadius"
  /\ cells[1].points # Arr3(1, 2, 3)
  /\ cells[1].radius # <<>> /\ cells[1].center # <<>>
  /\ calls[1][3] # calculateDistanceSquarePlane(calculateCircumcentre(Arr3(1, 2, 3)), P(1))

\* ------------------------------------------------------------------ C28
\* C28: a call of findContainingTriangle whose start is null, or whose start
\* carries the search identifier of the call already, returns null in that
\* same step: no triangle gets a stamp or any other change, and no queue is
\* made or touched.
C28_StartCheck ==
  [][Len(calls') = Len(calls) + 1 =>
       LET id == calls'[Len(calls')][2][1]
           start == calls'[Len(calls')][2][2]
       IN (start = Null \/ cells[start].search = id) =>
            /\ calls'[Len(calls')][3] = Null
            /\ pc' = "ready"
            /\ cells' = cells
            /\ queue' = queue]_vars

\* a second call has returned null because its start carried the identifier
\* from the first call, whose queue is still there
C28_Witness ==
  /\ pc = "ready"
  /\ Len(calls) = 2
  /\ calls[2][2][2] # Null
  /\ cells[calls[2][2][2]].search = calls[2][2][1]
  /\ calls[2][3] = Null
  /\ queue # <<>>

\* ------------------------------------------------------------------ C29
\* insert takes its next point, or getTriangles is called: a pass starts
PassStarts ==
  \/ pc = "next" /\ pending # <<>>
  \/ pc = "idle" /\ pc' \in {"addRoot", "expand"}

\* the search identifiers that triangles carry
Stamps == { cells[t].search : t \in 1..Len(cells) } \ {Undefined}

\* C29: search is 0 as long as nothing was called.  It grows by exactly one
\* with every point that insert takes and with every getTriangles call, and
\* with nothing else.  The pass that starts then runs under the old value,
\* which is greater than the identifier of the pass before and than every
\* stamp a triangle carries, so that no triangle carries it.
C29_FreshPassIds ==
  [][/\ (Len(points) = 3 /\ Stamps = {}) => search = 0
     /\ IF PassStarts
        THEN /\ search' = search + 1
             /\ pass' = search
             /\ search > 0 => pass < pass'
             /\ \A id \in Stamps : id < pass'
        ELSE /\ search' = search
             /\ pass' = pass]_vars

\* a locate pass runs under the identifier 3, after a getTriangles call whose
\* identifier a live triangle still carries
C29_Witness ==
  /\ pc = "locate"
  /\ pass = 3 /\ search = 4
  /\ search > Len(points) - 3 - Len(pending) + 1
  /\ \E t \in Live : cells[t].search \in 1..2

\* ------------------------------------------------------------------ C30
\* C30: while findContainingTriangle runs, no triangle has been taken from the
\* queue and tested more than once in this pass, the start triangle neither.
C30_OncePerPass ==
  pc = "locate" => \A t \in 1..Len(cells) : Count(popped, t) <= 1

\* ------------------------------------------------------------------ C31
\* C31: while getTriangles looks for a triangle to start from, there is never
\* more than one activation of addRoot: none runs inside another one.
C31_NoNestedAddRoot ==
  pc = "addRoot" => Len(stack) <= 1

\* ------------------------------------------------------------------ C32
\* C32: when no insert is running, the triangles reachable from the root are
\* live and there are 2k + 1 of them, k being the number of points whose
\* triangle was found and split: the flips made and the points that were
\* not located do not count.
C32_CellCount ==
  ~InsertRunning =>
    /\ Reach({root}) \subseteq Live
    /\ Cardinality(Reach({root})) = 2 * Cardinality(Split) + 1

\* two points were split in and a flip was made
C32_Witness ==
  /\ pc = "idle"
  /\ Cardinality(Split) = 2
  /\ \E t \in Live : Flipped(t)

\* ------------------------------------------------------------------ C33
\* C33: when no insert is running and a point has been split in, the root is
\* a live triangle, each triangle it holds as a neighbor holds it as a
\* neighbor too, and the point that was split in last is one of its corners,
\* whatever flips were made since.
C33_RootValid ==
  (~InsertRunning /\ Split # {}) =>
    /\ root \in Live
    /\ \A n \in Neighbors(root) : root \in Neighbors(n)
    /\ \A p \in Split : (\A q \in Split : q <= p) => p \in Vertices(root)

\* an insert has ended with a root that a flip has changed: no triangle that
\* was split had both of its corners other than the new point
C33_Witness ==
  /\ pc = "idle"
  /\ Cardinality(Split) >= 2
  /\ \A d \in dead : ~(Vertices(root) \ {Creator(root)} \subseteq Vertices(d))
  /\ Cardinality(Neighbors(root)) = 3

\* ------------------------------------------------------------------ C34
\* C34: searchBinary, called by insert on an array sorted ascending under
\* compare, ends its loop and returns an index between 0 and the length such
\* that no element before the index is greater than the new element and no
\* element from the index on is smaller; for the empty array it returns 0.
C34_SearchBinary ==
  (calls # <<>> /\ calls[1][1] = "insert") =>
    LET elements == calls[1][2][1]
        element == calls[1][2][2]
        index == calls[1][3].index
    IN /\ calls[1][3].turns <= Len(elements) + 1
       /\ index \in 0..Len(elements)
       /\ \A k \in 1..index : compare(elements[k], element) <= 0
       /\ \A k \in index + 1..Len(elements) : compare(elements[k], element) >= 0
       /\ elements = <<>> => index = 0

\* searchBinary took three turns to place an element between two others
C34_Witness ==
  /\ calls # <<>> /\ calls[1][1] = "insert"
  /\ calls[1][3].turns >= 3
  /\ calls[1][3].index \in 1..Len(calls[1][2][1]) - 1
  /\ Len(calls[1][2][1]) = MaxLen - 1

\* ------------------------------------------------------------------ C35
\* C35: pop of the sorted list takes out and returns an element that is not
\* greater under compare than any element the queue held.
C35_PopIsSmallest ==
  (calls # <<>> /\ calls[1][1] = "pop") =>
    \A k \in 1..Len(calls[1][2][1]) : compare(calls[1][3], calls[1][2][1][k]) <= 0

====
